---- MODULE Spec2Model ----
(***************************************************************************)
(* ts-retoken: the token refresh coordinator (src/src/refresher.ts) and    *)
(* the fetch wrapper built on it (src/src/createRetoken.ts, jwt.ts).       *)
(*                                                                         *)
(* One coordinator instance created by createRefresher, the callers of     *)
(* its refresh(), the refresh endpoint behind fetch, the timers started    *)
(* by sleep(), and the token store behind the injected getRefreshToken /   *)
(* setTokens / clearTokens capabilities.                                   *)
(*                                                                         *)
(* JavaScript runs each synchronous stretch of code atomically; an await   *)
(* or a promise reaction ends the stretch. One action is one such stretch: *)
(*   Refresh       refresh() up to its return (lines 176-207), which       *)
(*                 includes the first fetch call of a new refresh          *)
(*   FetchResponds the continuation of `await fetch` in performRefresh     *)
(*                 and the catch block of performRefreshWithRetry          *)
(*   Tick          time passing while a sleep() timer is pending           *)
(*   TimerFires    the continuation of `await sleep`, the next attempt     *)
(*   OnSettled     the .then / .catch reaction (lines 193-201)             *)
(*   OnFinally     the .finally reaction (lines 202-204)                   *)
(*   Resume        the continuation of a caller's `await refresh()`        *)
(* and for wrappedFetch (createRetoken.ts lines 130-173):                  *)
(*   RequestWithAuth the call up to its first await                        *)
(*   AfterProactive  the continuation of the await of line 144             *)
(*   ApiResponds     the continuation of `await fetch` of line 152         *)
(*   AfterReactive   the continuation of the await of line 160             *)
(*   RetriedResponds the promise returned at line 162 settling             *)
(* Spec and SpecRetry are the coordinator alone; SpecFetch is an instance  *)
(* of createRetoken.                                                       *)
(***************************************************************************)
EXTENDS Integers, Sequences, FiniteSets, TLC

\* ------------------------------------------------------------------ bounds
\* Spec, the coordinator under concurrent callers:
\* callers of refresh() that exist side by side
NCallers == 2
\* refresh() calls made in one behaviour (also the most refreshes started)
MaxCalls == 3
\* longest retryDelays sequence
JoinRetries == 1
\* SpecRetry, the exchange with retry of one refresh: the same three
RetryCallers == 1
RetryCalls == 1
MaxRetries == 2
\* SpecFetch, the wrapped fetch of createRetoken over the coordinator, its
\* calls made one after the other: callers that exist side by side
FetchCallers == 1
\* calls made in one behaviour, of the wrapped fetch or of refreshToken
FetchCalls == 2
\* longest retryDelays sequence
FetchRetries == 1
\* isTokenExpiringSoon alone: expirations up to MaxExp seconds, leeways up
\* to MaxLeeway seconds, clock readings up to MaxClock half seconds
\* two instances on one channel: the calls made on the instance, the retries
\* of its refresh, the calls of refresh() on the other instance, the messages
\* other contexts post
TabCalls == 2
TabRetries == 1
PeerCalls == 2
MaxForeign == 1
MaxExp == 4
\* calls of the wrapped fetch made at the same time
SharedCallers == 2
SharedCalls == 2
SharedRetries == 1
MaxLeeway == 2
MaxClock == 8

\* the largest of a set of numbers
MaxOf(S) == CHOOSE x \in S : \A y \in S : y <= x
\* names of the refreshes started, in the order they start (a call of the
\* wrapped fetch calls refresh() at most twice)
Gens == 1..MaxOf({MaxCalls, RetryCalls, 2 * FetchCalls, TabCalls, 2 * SharedCalls})
\* retryDelays of n delays, in time units: n, n-1, .., 1 (all different, so
\* that the order they are used in shows)
Delays(n) == [i \in 1..n |-> n + 1 - i]
\* what the refresh endpoint may do: the statuses it answers with, and
\* whether fetch may throw instead. Success, a client error, an auth failure
\* and a server error; under concurrent callers the coarser choice.
AnyAnswer == [statuses |-> {200, 400, 401, 500}, throws |-> TRUE]
PlainAnswers == [statuses |-> {200, 401, 500}, throws |-> FALSE]
\* values tried for refreshFailureStatuses (createRetoken.ts:26 is the default)
FailureStatusChoices == {{401, 403}, {500}}

VARIABLES
    cfg,            \* RefresherConfig: retryDelays, skipOnClientError,
                    \*   refreshFailureStatuses, hasGetter (getRefreshToken given)
    endpoint,       \* what the refresh endpoint may answer
    store,          \* the token store behind the injected capabilities
    refreshPromise, \* refresher.ts:90, 0 for null, else the refresh it belongs to
    op,             \* per refresh: where its promise chain stands, and its history
    caller,         \* per caller: where its call to refresh() stands
    issued,         \* token pairs the refresh endpoint has issued so far
    nCalls,         \* calls the callers may still make
    log,            \* the calls of the injected callbacks, in order
    retoken,        \* RetokenConfig beyond the refresher's: retryStatuses,
                    \*   expirationLeeway
    api,            \* what the API behind the wrapped fetch may answer
    jwt,            \* the claims each access token carries
    now,            \* Date.now() as last read, in ms
    req,            \* per caller: where its call of the wrapped fetch stands
    tab,            \* the cross-tab sync of the instance: its channel, the
                    \*   messages on their way to it, the calls it has made
    peer,           \* another instance, built by a construction of its own
    probe           \* the latest call of isTokenExpiringSoon and its result

\* the state that only the wrapped fetch of createRetoken reads or writes
fetchVars == <<retoken, api, jwt, now, req>>

vars == <<cfg, endpoint, store, refreshPromise, op, caller, issued, nCalls, log,
          retoken, api, jwt, now, req, tab, peer, probe>>

\* ------------------------------------------------------------------ values
NoTokens == [accessToken |-> 0, refreshToken |-> 0]
LoginPair == [accessToken |-> 1, refreshToken |-> 2]
\* the body of the k-th 2xx answer of the refresh endpoint
IssuedData(k) == [access_token |-> 2 * k + 1, refresh_token |-> 2 * k + 2]

NoError == [name |-> "none", status |-> 0]
RefreshError(status) == [name |-> "RefreshError", status |-> status]
\* what fetch itself (or response.json(), or parseResponse) throws
TransportError == [name |-> "Error", status |-> 0]
\* what a setTokens or an onTokenRefresh of the application throws
CallbackError == [name |-> "CallbackError", status |-> 0]

Pending == [state |-> "pending", tokens |-> NoTokens, error |-> NoError]
Fulfilled(tokens) == [state |-> "fulfilled", tokens |-> tokens, error |-> NoError]
Rejected(error) == [state |-> "rejected", tokens |-> NoTokens, error |-> error]

\* a response of the endpoint: a status and a body, or a thrown exception
Responses(k) ==
    {[threw |-> FALSE, status |-> s, data |-> IssuedData(k)] : s \in endpoint.statuses}
    \cup (IF endpoint.throws
          THEN {[threw |-> TRUE, status |-> 0, data |-> IssuedData(k)]}
          ELSE {})

\* Response.ok
ResponseOk(r) == r.status >= 200 /\ r.status < 300

\* refreshEndpoint.parseResponse as the tests and the README configure it
ParseResponse(data) ==
    [accessToken |-> data.access_token, refreshToken |-> data.refresh_token]

\* a call of an injected callback: which one, for which refresh (0: the
\* call of refresh() that found no refresh token), and the pair passed
\* (NoTokens for a callback that takes no argument)
Event(ev, gen, arg) == [ev |-> ev, gen |-> gen, arg |-> arg]

IdleOp ==
    [phase |-> "none", attempt |-> 0, refreshToken |-> 0, delay |-> 0,
     elapsed |-> 0, result |-> Pending, fetches |-> 0, bodies |-> <<>>,
     responses |-> <<>>, slept |-> <<>>, waited |-> <<>>]

\* own: the outcome of a promise that belongs to this call alone
\* found: what the refresh in refreshPromise was doing when the call was made
IdleCaller ==
    [pc |-> "idle", on |-> 0, own |-> Pending, res |-> Pending, window |-> 0,
     slotAtResume |-> 0, found |-> "none"]

Callers == DOMAIN caller

Settled == {g \in Gens : op[g].phase = "settled"}
Started == {g \in Gens : op[g].phase # "none"}
InFlight == Started \ Settled

Configs(retries) ==
    [retryDelays : {Delays(n) : n \in 0..retries},
     skipOnClientError : BOOLEAN,
     refreshFailureStatuses : FailureStatusChoices,
     hasGetter : BOOLEAN,
     throwing : {"none"}]

\* the same with a setTokens, or an onTokenRefresh, that throws
ThrowingConfigs(retries) ==
    {[c EXCEPT !.throwing = t] :
        c \in Configs(retries), t \in {"setTokens", "onTokenRefresh"}}

\* createRefresher (lines 74-90) for each of the configurations, the store
\* holding the pair of a login
InitOver(configs, callers, calls, answers) ==
    /\ cfg \in configs
    /\ endpoint = answers
    /\ store = LoginPair
    /\ refreshPromise = 0
    /\ op = [g \in Gens |-> IdleOp]
    /\ caller = [c \in 1..callers |-> IdleCaller]
    /\ issued = 0
    /\ nCalls = calls
    /\ log = <<>>

InitWith(callers, calls, retries, answers) ==
    InitOver(Configs(retries), callers, calls, answers)

\* ---- the values of the wrapped fetch
\* the access tokens there are: the one of the login and those the refresh
\* endpoint issues
AccessTokens == {LoginPair.accessToken} \cup {IssuedData(k).access_token : k \in Gens}

\* A JWT by what parseTokenExpiration reads of it: the number of parts
\* between dots, and the exp claim of the payload in seconds, if it is a
\* number. createToken and createTokenWithoutExp of the test helpers, and a
\* string that is no JWT.
Token(expSeconds) == [parts |-> 3, hasExp |-> TRUE, exp |-> expSeconds]
TokenWithoutExp == [parts |-> 3, hasExp |-> FALSE, exp |-> 0]
NotAJwt == [parts |-> 1, hasExp |-> FALSE, exp |-> 0]
\* the tokens of the login and of the refresh endpoint: one that expires at
\* second 2, one that outlives every clock reading, and the broken ones
LoginTokens == {Token(2), Token(9), TokenWithoutExp, NotAJwt}
IssuedTokens == {Token(2), Token(9)}
\* the readings of Date.now(), in ms: with a leeway of 1 s, Token(2) is
\* within the leeway at the first and expired at the second
Times == {1000, 2000}

\* retryStatuses and expirationLeeway (seconds) as configured; the defaults
\* are [401] and 60 (createRetoken.ts lines 24-25)
RetokenConfigs == [retryStatuses : {{401}, {401, 403}}, expirationLeeway : {1}]
\* the API behind the wrapped fetch: its statuses, and whether fetch may throw
ApiAnswers == [statuses |-> {200, 401, 403}, throws |-> FALSE]

\* HTTP header names are case-insensitive: a Headers object keeps them in
\* lower case
Lower(name) == IF name \in {"Authorization", "authorization"} THEN "authorization"
               ELSE "x-custom"
\* a header value: its text, and the token a template put behind it (0: none)
Plain(text) == [text |-> text, token |-> 0]
NoHeaders == [n \in {} |-> Plain("")]
\* the `headers` option of a call: none, or a custom header together with
\* an Authorization header of the caller's own
CallerHeaders ==
    {NoHeaders,
     [n \in {"X-Custom", "authorization"} |->
        IF n = "X-Custom" THEN Plain("value") ELSE Plain("Basic")]}

\* what a call of the wrapped fetch returned: the response of its i-th
\* request, or the exception that request threw
NoResult == [kind |-> "none", of |-> 0, status |-> 0]
Returned(i, status) == [kind |-> "response", of |-> i, status |-> status]
Threw(i) == [kind |-> "threw", of |-> i, status |-> 0]

\* What a call of wrappedFetchJson (createRetoken.ts lines 176-205) ended
\* with: the parsed body, null, or an error by its name, with the status and
\* body a FetchError carries ("parsed": what response.json() gave, "null":
\* null); read tells whether response.json() was called.
NoOutcome == [kind |-> "none", name |-> "", status |-> 0, body |-> "none", read |-> FALSE]
ParsedBody(status) ==
    [kind |-> "value", name |-> "", status |-> status, body |-> "parsed", read |-> TRUE]
NullResult(status) ==
    [kind |-> "null", name |-> "", status |-> status, body |-> "null", read |-> FALSE]
FetchError(status, body) ==
    [kind |-> "error", name |-> "FetchError", status |-> status, body |-> body, read |-> TRUE]
\* an exception that passes through wrappedFetchJson unchanged
Propagated(error, read) ==
    [kind |-> "error", name |-> error.name, status |-> error.status, body |-> "none",
     read |-> read]
\* what response.json() throws for a body that is no JSON
SyntaxError == [name |-> "SyntaxError", status |-> 0]
\* the values tried for the expectedStatuses option; [200, 201] is the
\* default (createRetoken.ts line 180)
ExpectedChoices == {{200, 201}, {200, 204}}

\* a call of the wrapped fetch (createRetoken.ts lines 130-173): its
\* options, where it stands, and what it did so far
IdleReq ==
    [pc |-> "idle", skipProactiveRefresh |-> FALSE, skipRetry |-> FALSE,
     headers |-> NoHeaders,
     calledAt |-> 0,       \* Date.now() when the call was made
     tokenAtCall |-> 0,    \* the access token in the store at that time
     refreshes |-> <<>>,   \* outcomes of its calls of refresh(), Pending until known
     sent |-> <<>>,        \* the requests issued: headers, the token in the
                           \*   store then, and the refresh() calls made before
     responses |-> <<>>,   \* statuses answered (0 for a thrown exception)
     result |-> NoResult,
     json |-> FALSE,       \* the call was made through wrappedFetchJson
     expectedStatuses |-> {},
     outcome |-> NoOutcome] \* what wrappedFetchJson returned or threw

\* no call of the wrapped fetch is made: the coordinator on its own
\* ---- the values of the cross-tab sync
\* what postMessage throws on a channel that was closed
InvalidStateError == [name |-> "InvalidStateError", status |-> 0]
\* a call the instance made on a capability of the application or on its
\* channel: for refresh gen (0: no refresh token), or for a message received
Did(ev, gen, why) == [ev |-> ev, gen |-> gen, why |-> why]
\* notifier: "absent" when createCrossTabSync gave null (crossTab.ts lines
\* 31-37) or crossTabSync is off, else "open", and "closed" once destroyed;
\* inbox: the messages (their data) on their way to channel.onmessage,
\* received: those it was called with
NoTab ==
    [notifier |-> "absent", inbox |-> <<>>, received |-> <<>>, posted |-> 0,
     others |-> 0, calls |-> <<>>]
NoProbe == [asked |-> FALSE, token |-> 0, leeway |-> 0, now |-> 0, result |-> FALSE]
\* the other instance: its store, its own refreshPromise (1 while its
\* refresh is in flight), the exchanges it started, its channel
NoPeer ==
    [notifier |-> "absent", inbox |-> <<>>, received |-> <<>>, store |-> NoTokens,
     refreshPromise |-> 0, exchanges |-> 0, calls |-> <<>>, nCalls |-> 0]
\* one instance, without cross-tab sync
Alone == tab = NoTab /\ peer = NoPeer /\ probe = NoProbe

Unwrapped ==
    /\ retoken = [retryStatuses |-> {401}, expirationLeeway |-> 1]
    /\ api = [statuses |-> {}, throws |-> FALSE]
    /\ jwt = [t \in AccessTokens |-> Token(9)]
    /\ now = 1000
    /\ req = [c \in DOMAIN caller |-> IdleReq]
    /\ Alone

Init == InitWith(NCallers, MaxCalls, JoinRetries, PlainAnswers) /\ Unwrapped

InitRetry == InitWith(RetryCallers, RetryCalls, MaxRetries, AnyAnswer) /\ Unwrapped

\* createRetoken (lines 63-111) without cross-tab synchronisation, the store
\* holding the pair of a login; skipOnClientError and refreshFailureStatuses
\* are left at their defaults (lines 26 and 28)
InitFetch ==
    /\ InitWith(FetchCallers, FetchCalls, FetchRetries, PlainAnswers)
    /\ cfg.skipOnClientError
    /\ cfg.refreshFailureStatuses = {401, 403}
    /\ retoken \in RetokenConfigs
    /\ api = ApiAnswers
    /\ \E login \in LoginTokens, issuedToken \in IssuedTokens :
            jwt = [t \in AccessTokens |->
                    IF t = LoginPair.accessToken THEN login ELSE issuedToken]
    /\ now = 1000
    /\ req = [c \in DOMAIN caller |-> IdleReq]
    /\ Alone

\* ------------------------------------------------- the injected capabilities
\* getRefreshToken, setTokens and clearTokens over a store object, as the
\* tests and the README write them
GetRefreshToken == store.refreshToken

\* a store that stays empty once it was cleared
SetTokens_UnlessCleared(tokens) ==
    IF store.refreshToken = 0 THEN store
    ELSE [accessToken |-> tokens.accessToken, refreshToken |-> tokens.refreshToken]

SetTokens(tokens) == [accessToken |-> tokens.accessToken, refreshToken |-> tokens.refreshToken]

ClearTokens == [accessToken |-> 0, refreshToken |-> 0]

\* ------------------------------------------------------- createRefresher
isAuthFailureStatus_Never(status) == FALSE

\* line 94
isAuthFailureStatus(status) == status \in cfg.refreshFailureStatuses

\* a body built whether or not there is a refresh token to put in it
RequestBody_Always(refreshToken) == IF refreshToken # 0 THEN refreshToken ELSE -1

\* lines 124-126: the body of the request, 0 for none
RequestBody(refreshToken) == IF refreshToken # 0 THEN refreshToken ELSE 0

PerformRefreshError_Wrapped(r) == RefreshError(r.status)

\* lines 128-132: what performRefresh throws for a response it does not return
PerformRefreshError(r) ==
    IF r.threw THEN TransportError ELSE RefreshError(r.status)

\* line 147
IsAuthFailure(error) ==
    error.name = "RefreshError" /\ isAuthFailureStatus(error.status)

\* an error that is no RefreshError counted with the client errors
isClientError_AnyOther(error) ==
    error.name # "RefreshError" \/ (error.status >= 400 /\ error.status < 500)

isClientError_Above400(error) ==
    error.name = "RefreshError" /\ error.status > 400 /\ error.status < 500

\* lines 152-155
isClientError(error) ==
    error.name = "RefreshError" /\ error.status >= 400 /\ error.status < 500

SkipsClientError_Always(error) == isClientError(error)

\* line 157, left disjunct
SkipsClientError(error) == cfg.skipOnClientError /\ isClientError(error)

AttemptsExhausted_OneEarly(attempt) == attempt + 1 >= Len(cfg.retryDelays)

\* line 157, right disjunct (attempt counts from 0)
AttemptsExhausted(attempt) == attempt = Len(cfg.retryDelays)

RetryDelay_First(attempt) == cfg.retryDelays[1]

\* line 162: retryDelays[attempt]
RetryDelay(attempt) == cfg.retryDelays[attempt + 1]

HandleAuthFailure_CallbackFirst(g) ==
    <<Event("onAuthFailure", g, NoTokens), Event("clearTokens", g, NoTokens)>>

\* lines 170-173, the calls made
HandleAuthFailure(g) ==
    <<Event("clearTokens", g, NoTokens), Event("onAuthFailure", g, NoTokens)>>

\* setTokens and the callback run again for a second caller that waits
OnRefreshed_PerCaller(g, tokens) ==
    LET once == <<Event("setTokens", g, tokens), Event("onTokenRefresh", g, tokens)>>
    IN  IF \E c1, c2 \in DOMAIN caller :
                c1 # c2 /\ caller[c1].on = g /\ caller[c2].on = g
        THEN once \o once ELSE once

OnRefreshed_CallbackFirst(g, tokens) ==
    <<Event("onTokenRefresh", g, tokens), Event("setTokens", g, tokens)>>

\* lines 193-197, the calls made by the .then reaction
OnRefreshed(g, tokens) ==
    <<Event("setTokens", g, tokens), Event("onTokenRefresh", g, tokens)>>

AlreadyRefreshing_WhileFetching ==
    refreshPromise # 0 /\ op[refreshPromise].phase = "fetching"

AlreadyRefreshing_Never == FALSE

\* the refresh token asked for before the slot is looked at
AlreadyRefreshing_GetterFirst ==
    refreshPromise # 0 /\ ~(cfg.hasGetter /\ store.refreshToken = 0)

\* a refresh that sleeps between two attempts does not count as in progress
AlreadyRefreshing_NotAsleep == refreshPromise # 0 /\ op[refreshPromise].phase # "sleeping"

\* line 178
AlreadyRefreshing == refreshPromise # 0

StartedSlot_NotStored(g) == 0

\* line 192: what the assignment leaves in refreshPromise for refresh g
StartedSlot(g) == g

NoRefreshToken_Never(refreshToken) == FALSE

\* line 186
NoRefreshToken(refreshToken) == cfg.hasGetter /\ refreshToken = 0

\* the refresh a call of performRefreshWithRetry is known by in this model
NextGen == Cardinality(Started) + 1

\* The history of a refresh (its fetches, responses and sleeps) is kept until
\* the next refresh starts; of a refresh settled before that, the outcome stays
\* while a caller still waits for it.
Forget(ops) ==
    [g \in Gens |->
        IF ops[g].phase = "settled"
        THEN [IdleOp EXCEPT !.phase = "settled",
                            !.result = IF \E c \in Callers :
                                            caller[c].pc = "waiting" /\ caller[c].on = g
                                         THEN ops[g].result ELSE Pending]
        ELSE ops[g]]

\* likewise what a caller saw of its last call
ForgetCallers(cs) ==
    [c \in Callers |-> IF cs[c].pc = "idle" THEN IdleCaller ELSE cs[c]]

\* performRefresh up to its `await fetch` (lines 103-128)
StartFetch(o) ==
    [o EXCEPT !.phase = "fetching", !.fetches = @ + 1,
              !.bodies = Append(@, RequestBody(o.refreshToken))]

Calls(cs, c, on, own) ==
    [cs EXCEPT ![c] =
        [pc |-> "waiting", on |-> on, own |-> own, res |-> Pending,
         window |-> Cardinality(Settled), slotAtResume |-> 0,
         found |-> IF refreshPromise = 0 THEN "none" ELSE op[refreshPromise].phase]]

\* channel.postMessage reaches every other open channel of that name
Posted(p, data) ==
    IF p.notifier = "open" THEN [p EXCEPT !.inbox = Append(@, data)] ELSE p

\* channel.postMessage, which throws once the channel was closed
PostMessage(t) == IF t.notifier = "closed" THEN "postMessageThrew" ELSE "postMessage"

AuthFailureCalls_CallbackFirst(t, g) ==
    <<Did("clearTokens", g, "failure")>>
    \o (IF t.notifier = "closed" THEN <<>> ELSE <<Did("onAuthFailure", g, "failure")>>)
    \o (IF t.notifier = "absent" THEN <<>> ELSE <<Did(PostMessage(t), g, "failure")>>)

\* what handleAuthFailure (refresher.ts lines 170-173) calls when the
\* refresher is the one of createRetoken: clearTokens, then the onAuthFailure
\* of createRetoken.ts lines 103-110, which is crossTabSync?.broadcastLogout()
\* followed by the onAuthFailure of the application; postMessage throws on a
\* closed channel, and what follows it is not reached
AuthFailureCalls(t, g) ==
    <<Did("clearTokens", g, "failure")>>
    \o (IF t.notifier = "absent" THEN <<>> ELSE <<Did(PostMessage(t), g, "failure")>>)
    \o (IF t.notifier = "closed" THEN <<>> ELSE <<Did("onAuthFailure", g, "failure")>>)

Publishes_WithoutNotifier(t) == t.notifier # "closed"

\* crossTabSync?.broadcastLogout() publishes a message
Publishes(t) == t.notifier = "open"

\* handleAuthFailure for refresh g, on the channel and the other instance
OnAuthFailure(g) ==
    /\ tab' = [tab EXCEPT !.calls = @ \o AuthFailureCalls(tab, g),
                          !.posted = IF Publishes(tab) THEN @ + 1 ELSE @]
    /\ peer' = IF Publishes(tab) THEN Posted(peer, "LOGOUT") ELSE peer

\* what the caller of handleAuthFailure goes on with: the error it was
\* about to throw, or the exception handleAuthFailure threw
Thrown(error) == IF tab.notifier = "closed" THEN InvalidStateError ELSE error

\* refresh(), lines 176-207, called by caller c
RefreshCall(c) ==
    /\ caller[c].pc = "idle"
    /\ IF AlreadyRefreshing
       THEN /\ caller' = Calls(caller, c, refreshPromise, Pending)
            /\ UNCHANGED <<store, refreshPromise, op, issued, log, tab, peer>>
       ELSE LET refreshToken == IF cfg.hasGetter THEN GetRefreshToken ELSE 0
            IN  IF NoRefreshToken(refreshToken)
                THEN /\ store' = ClearTokens
                     /\ log' = log \o HandleAuthFailure(0)
                     /\ OnAuthFailure(0)
                     /\ caller' = Calls(caller, c, 0, Rejected(Thrown(RefreshError(0))))
                     /\ UNCHANGED <<refreshPromise, op, issued>>
                ELSE LET g == NextGen
                     IN  /\ g \in Gens
                         /\ op' = [Forget(op) EXCEPT ![g] =
                                StartFetch([IdleOp EXCEPT !.refreshToken = refreshToken])]
                         /\ refreshPromise' = StartedSlot(g)
                         /\ caller' = Calls(ForgetCallers(caller), c, g, Pending)
                         /\ UNCHANGED <<store, log, issued, tab, peer>>

\* a call of refresh() made directly: on the coordinator, or through
\* refreshToken of the instance (createRetoken.ts line 211)
Refresh(c) ==
    /\ req[c].pc \in {"idle", "done"}
    /\ nCalls > 0
    /\ nCalls' = nCalls - 1
    /\ RefreshCall(c)
    /\ UNCHANGED <<cfg, endpoint, probe>>
    /\ UNCHANGED fetchVars

SettledFor_BeforeFinally(o) == o.phase \in {"finally", "settled"}

\* lines 192-206: the promise refresh() returns is the one .finally returns,
\* which settles once the .finally reaction has run
SettledFor(o) == o.phase = "settled"

\* the promise caller c awaits has settled and its continuation has not run
Awaited(c) ==
    /\ caller[c].pc = "waiting"
    /\ IF caller[c].on = 0 THEN TRUE ELSE SettledFor(op[caller[c].on])

\* A promise reaction or the continuation of an await is a microtask; a
\* response of fetch and the callback of a timer are tasks, and a task runs
\* only once no microtask is left.
ReactionPending ==
    \/ \E g \in Gens : op[g].phase \in {"resolved", "finally"}
    \/ \E c \in Callers : Awaited(c)
    \/ \E c \in Callers :
            req[c].json /\ req[c].pc = "done" /\ req[c].outcome.kind = "none"

\* the continuation of `await fetch` (lines 128-135) and, when performRefresh
\* throws, the catch block of performRefreshWithRetry (lines 145-163)
FetchResponds(g, r) ==
    /\ op[g].phase = "fetching"
    /\ ~ReactionPending
    /\ LET o == [op[g] EXCEPT !.responses = Append(@, [threw |-> r.threw, status |-> r.status])]
           error == PerformRefreshError(r)
       IN  IF ~r.threw /\ ResponseOk(r)
           THEN /\ op' = [op EXCEPT ![g] =
                        [o EXCEPT !.phase = "resolved",
                                  !.result = Fulfilled(ParseResponse(r.data))]]
                /\ issued' = issued + 1
           ELSE IF IsAuthFailure(error)
                   \/ SkipsClientError(error)
                   \/ AttemptsExhausted(op[g].attempt)
                THEN /\ op' = [op EXCEPT ![g] =
                             [o EXCEPT !.phase = "resolved", !.result = Rejected(error)]]
                     /\ UNCHANGED issued
                ELSE /\ op' = [op EXCEPT ![g] =
                             [o EXCEPT !.phase = "sleeping",
                                       !.delay = RetryDelay(op[g].attempt),
                                       !.elapsed = 0,
                                       !.slept = Append(@, RetryDelay(op[g].attempt))]]
                     /\ UNCHANGED issued
    /\ UNCHANGED <<cfg, endpoint, store, refreshPromise, caller, nCalls, log>>
    /\ UNCHANGED fetchVars
    /\ UNCHANGED <<tab, peer, probe>>

\* one unit of time passes for the timer of sleep(ms), lines 64-66
Tick(g) ==
    /\ op[g].phase = "sleeping"
    /\ op[g].elapsed < op[g].delay
    /\ op' = [op EXCEPT ![g].elapsed = @ + 1]
    /\ UNCHANGED <<cfg, endpoint, store, refreshPromise, caller, issued, nCalls, log>>
    /\ UNCHANGED fetchVars
    /\ UNCHANGED <<tab, peer, probe>>

\* setTimeout runs its callback no earlier than after ms
TimerDue(o) == o.elapsed >= o.delay

\* the continuation of `await sleep` (line 162): attempt++ and the next
\* performRefresh (lines 142-144)
TimerFires(g) ==
    /\ op[g].phase = "sleeping"
    /\ TimerDue(op[g])
    /\ ~ReactionPending
    /\ op' = [op EXCEPT ![g] =
            StartFetch([op[g] EXCEPT !.attempt = @ + 1,
                                     !.waited = Append(@, op[g].elapsed)])]
    /\ UNCHANGED <<cfg, endpoint, store, refreshPromise, caller, issued, nCalls, log>>
    /\ UNCHANGED fetchVars
    /\ UNCHANGED <<tab, peer, probe>>

\* the calls the .then reaction makes: a setTokens that throws is the last
ThenCalls(g, tokens) ==
    IF cfg.throwing = "setTokens" THEN <<Event("setTokens", g, tokens)>>
    ELSE OnRefreshed(g, tokens)

\* a throw in the .then reaction passing the .catch by
AfterThen_Uncaught(threw) == "finally"

\* lines 193-204, where the chain goes after the .then reaction: when it
\* threw, the promise it returns is rejected and the .catch reaction is run
\* for it, else the .catch is passed through to the .finally
AfterThen(threw) == IF threw THEN "resolved" ELSE "finally"

\* the .then reaction (lines 193-197) or the .catch reaction (lines 198-201);
\* a setTokens that throws is taken to have stored nothing
OnSettled(g) ==
    /\ op[g].phase = "resolved"
    /\ IF op[g].result.state = "fulfilled"
       THEN LET tokens == op[g].result.tokens
                threw == cfg.throwing # "none"
            IN  /\ store' = IF cfg.throwing = "setTokens" THEN store
                             ELSE SetTokens(tokens)
                /\ log' = log \o ThenCalls(g, tokens)
                /\ op' = [op EXCEPT ![g].phase = AfterThen(threw),
                                    ![g].result = IF threw THEN Rejected(CallbackError)
                                                  ELSE @]
                /\ UNCHANGED <<tab, peer>>
       ELSE /\ store' = ClearTokens
            /\ log' = log \o HandleAuthFailure(g)
            /\ OnAuthFailure(g)
            /\ op' = [op EXCEPT ![g].phase = "finally",
                                ![g].result = Rejected(Thrown(op[g].result.error))]
    /\ UNCHANGED <<cfg, endpoint, refreshPromise, caller, issued, nCalls, probe>>
    /\ UNCHANGED fetchVars

ClearedSlot_Kept == refreshPromise

\* the slot reset by the .then reaction, so only after a success
ClearedSlot_OnSuccessOnly ==
    IF \E g \in Gens : op[g].phase = "finally" /\ op[g].result.state = "rejected"
    THEN refreshPromise ELSE 0

\* what the .finally reaction leaves in refreshPromise (line 203)
ClearedSlot == 0

\* the .finally reaction (lines 202-204); the promise refresh() returned
\* settles after it
OnFinally(g) ==
    /\ op[g].phase = "finally"
    /\ refreshPromise' = ClearedSlot
    /\ op' = [op EXCEPT ![g].phase = "settled"]
    /\ UNCHANGED <<cfg, endpoint, store, caller, issued, nCalls, log>>
    /\ UNCHANGED fetchVars
    /\ UNCHANGED <<tab, peer, probe>>

\* what the continuation of `await refresh()` of caller c receives
Outcome(c) == IF caller[c].on = 0 THEN caller[c].own ELSE op[caller[c].on].result

\* caller c once its continuation has started
Resumes(c) ==
    [caller EXCEPT ![c].pc = "idle", ![c].res = Outcome(c),
                   ![c].slotAtResume = refreshPromise]

\* the continuation of `await refresh()` of a caller that called directly
Resume(c) ==
    /\ Awaited(c)
    /\ req[c].pc \in {"idle", "done"}
    /\ caller' = Resumes(c)
    /\ UNCHANGED <<cfg, endpoint, store, refreshPromise, op, issued, nCalls, log>>
    /\ UNCHANGED fetchVars
    /\ UNCHANGED <<tab, peer, probe>>

Next ==
    \/ \E c \in Callers : Refresh(c)
    \/ \E g \in Gens : \E r \in Responses(issued + 1) : FetchResponds(g, r)
    \/ \E g \in Gens : Tick(g)
    \/ \E g \in Gens : TimerFires(g)
    \/ \E g \in Gens : OnSettled(g)
    \/ \E g \in Gens : OnFinally(g)
    \/ \E c \in Callers : Resume(c)

Spec == Init /\ [][Next]_vars

SpecRetry == InitRetry /\ [][Next]_vars

\* The coordinator with callers that join, over an endpoint whose fetch may
\* also throw.
InitLive == InitWith(NCallers, MaxCalls, JoinRetries, AnyAnswer) /\ Unwrapped

\* What runs the steps of a refresh. Every fetch call returns a response or
\* throws, and the timer of every sleep runs down and fires: the two
\* assumptions about the environment. A promise reaction or an await
\* continuation that is due is run by the event loop. Nothing makes a caller
\* call refresh().
Scheduling ==
    /\ \A g \in Gens :
        /\ WF_vars(\E r \in Responses(issued + 1) : FetchResponds(g, r))
        /\ WF_vars(Tick(g))
        /\ WF_vars(TimerFires(g))
        /\ WF_vars(OnSettled(g))
        /\ WF_vars(OnFinally(g))
    /\ \A c \in 1..NCallers : WF_vars(Resume(c))

\* The coordinator with callers that join, built with a setTokens or an
\* onTokenRefresh that throws.
InitThrows ==
    /\ InitOver(ThrowingConfigs(JoinRetries), NCallers, MaxCalls, PlainAnswers)
    /\ Unwrapped

SpecThrows == InitThrows /\ [][Next]_vars

SpecLive == InitLive /\ [][Next]_vars /\ Scheduling

\* ------------------------------------------------------------------ jwt.ts
\* null, of a function that returns a number otherwise
Null == -1

\* parseTokenExpiration, lines 36-48: the expiration in ms, or null
parseTokenExpiration(token) ==
    IF jwt[token].parts # 3 THEN Null
    ELSE IF ~jwt[token].hasExp THEN Null
    ELSE jwt[token].exp * 1000

isTokenExpiringSoon_Strict(token, leewaySeconds, dateNow) ==
    IF token = 0 THEN TRUE
    ELSE LET exp == parseTokenExpiration(token)
         IN  IF exp = Null THEN TRUE ELSE dateNow > exp - leewaySeconds * 1000

isTokenExpiringSoon_NoLeeway(token, leewaySeconds, dateNow) ==
    IF token = 0 THEN TRUE
    ELSE LET exp == parseTokenExpiration(token)
         IN  IF exp = Null THEN TRUE ELSE dateNow >= exp

\* isTokenExpiringSoon, lines 57-67, Date.now() being dateNow
isTokenExpiringSoon(token, leewaySeconds, dateNow) ==
    IF token = 0 THEN TRUE
    ELSE LET exp == parseTokenExpiration(token)
         IN  IF exp = Null THEN TRUE ELSE dateNow >= exp - leewaySeconds * 1000

\* the tokens isTokenExpiringSoon is tried on: createToken(exp) of the test
\* helpers for each exp up to MaxExp seconds, a token without exp, strings
\* of one and of two parts
JwtTokens ==
    {Token(e) : e \in 0..MaxExp}
    \cup {TokenWithoutExp, NotAJwt, [parts |-> 2, hasExp |-> FALSE, exp |-> 0]}
\* the readings of Date.now() it is tried at: every half second
ClockReadings == {500 * k : k \in 0..MaxClock}

\* the store holds a token of each kind in turn; nothing else is going on
InitJwt ==
    /\ InitWith(1, 0, 0, PlainAnswers)
    /\ cfg.skipOnClientError /\ cfg.hasGetter
    /\ cfg.refreshFailureStatuses = {401, 403}
    /\ retoken = [retryStatuses |-> {401}, expirationLeeway |-> 1]
    /\ api = [statuses |-> {}, throws |-> FALSE]
    /\ \E kind \in JwtTokens :
            jwt = [t \in AccessTokens |->
                    IF t = LoginPair.accessToken THEN kind ELSE Token(MaxExp)]
    /\ now = 0
    /\ req = [c \in DOMAIN caller |-> IdleReq]
    /\ Alone

\* a call isTokenExpiringSoon(token, leewaySeconds) while Date.now() gives
\* dateNow; token 0 is null or the empty string
IsTokenExpiringSoon(token, leewaySeconds, dateNow) ==
    /\ probe' = [asked |-> TRUE, token |-> token, leeway |-> leewaySeconds,
                 now |-> dateNow,
                 result |-> isTokenExpiringSoon(token, leewaySeconds, dateNow)]
    /\ now' = dateNow
    /\ UNCHANGED <<cfg, endpoint, store, refreshPromise, op, caller, issued, nCalls,
                   log, retoken, api, jwt, req, tab, peer>>

NextJwt ==
    \E token \in {0, LoginPair.accessToken} : \E leewaySeconds \in 0..MaxLeeway :
        \E dateNow \in ClockReadings :
            IsTokenExpiringSoon(token, leewaySeconds, dateNow)

SpecJwt == InitJwt /\ [][NextJwt]_vars

\* ------------------------------------------------------------ createRetoken
\* getAccessToken over the store object, as the tests write it
GetAccessToken == store.accessToken

\* lines 114-117
checkTokenExpiringSoon(dateNow) ==
    isTokenExpiringSoon(GetAccessToken, retoken.expirationLeeway, dateNow)

\* new Headers(init): the entries of init under lower-case names
NewHeaders(init) ==
    [n \in {Lower(k) : k \in DOMAIN init} |->
        init[CHOOSE k \in DOMAIN init : Lower(k) = n]]

\* Headers.set: replaces the value kept under the name, whatever its case
HeadersSet(headers, name, value) ==
    [n \in DOMAIN headers \cup {Lower(name)} |->
        IF n = Lower(name) THEN value ELSE headers[n]]

\* `Bearer ${token}`
Bearer(token) == [text |-> "Bearer ", token |-> token]

buildHeaders_AlwaysSets(customHeaders) ==
    HeadersSet(NewHeaders(customHeaders), "Authorization", Bearer(GetAccessToken))

\* buildHeaders, lines 120-127
buildHeaders(customHeaders) ==
    LET headers == NewHeaders(customHeaders)
        token == GetAccessToken
    IN  IF token # 0
        THEN HeadersSet(headers, "Authorization", Bearer(token))
        ELSE headers

Request_TokenOfCall(q) ==
    [headers |-> IF q.tokenAtCall # 0
                 THEN HeadersSet(NewHeaders(q.headers), "Authorization",
                                 Bearer(q.tokenAtCall))
                 ELSE NewHeaders(q.headers),
     token |-> GetAccessToken,
     refreshes |-> Len(q.refreshes)]

\* fetch(url, {...fetchOptions, headers: buildHeaders(headers)}), lines
\* 152-155 and 162-165: the request call q issues now
Request(q) ==
    [headers |-> buildHeaders(q.headers),
     token |-> GetAccessToken,
     refreshes |-> Len(q.refreshes)]

ShouldRefreshFirst_Always(q, dateNow) == checkTokenExpiringSoon(dateNow)

\* line 142
ShouldRefreshFirst(q, dateNow) ==
    ~q.skipProactiveRefresh /\ checkTokenExpiringSoon(dateNow)

\* no refresh after the response when the one before the request had failed
ShouldRetry_UnlessRefreshFailed(q, status) ==
    /\ ~q.skipRetry
    /\ status \in retoken.retryStatuses
    /\ ~(Len(q.refreshes) = 1 /\ q.refreshes[1].state = "rejected")

ShouldRetry_Always(q, status) == status \in retoken.retryStatuses

ShouldRetry_OnlyDefault(q, status) == ~q.skipRetry /\ status = 401

\* line 158
ShouldRetry(q, status) == ~q.skipRetry /\ status \in retoken.retryStatuses

\* the responses of the API: a status, or a thrown exception
ApiResponses ==
    {[threw |-> FALSE, status |-> s] : s \in api.statuses}
    \cup (IF api.throws THEN {[threw |-> TRUE, status |-> 0]} ELSE {})

\* the coordinator's part of the state is left alone
NoRefreshCall == UNCHANGED <<store, refreshPromise, op, caller, issued, log, tab, peer>>

\* q with the outcome of its latest call of refresh() filled in
Learns(q, outcome) == [q EXCEPT !.refreshes[Len(q.refreshes)] = outcome]

\* the call of caller r is over: wrappedFetch has returned or thrown and,
\* for a call made through wrappedFetchJson, so has that
CallOver(r) ==
    \/ req[r].pc = "idle"
    \/ req[r].pc = "done" /\ (req[r].json => req[r].outcome.kind # "none")

\* the options of a call (lines 134-139)
Options(skipProactiveRefresh, skipRetry, headers) ==
    [IdleReq EXCEPT !.skipProactiveRefresh = skipProactiveRefresh,
                    !.skipRetry = skipRetry,
                    !.headers = headers]

\* wrappedFetch from the call to its first await (lines 130-155): the await
\* of refresh() when the token is expiring soon, else that of the request
WrappedFetch(r, options, dateNow) ==
    /\ CallOver(r)
    /\ caller[r].pc = "idle"
    /\ nCalls > 0
    /\ nCalls' = nCalls - 1
    /\ dateNow >= now
    /\ now' = dateNow
    /\ LET q == [options EXCEPT !.calledAt = dateNow,
                                !.tokenAtCall = GetAccessToken]
       IN  IF ShouldRefreshFirst(q, dateNow)
           THEN /\ RefreshCall(r)
                /\ req' = [req EXCEPT ![r] =
                        [q EXCEPT !.pc = "proactive", !.refreshes = <<Pending>>]]
           ELSE /\ NoRefreshCall
                /\ req' = [req EXCEPT ![r] =
                        [q EXCEPT !.pc = "target", !.sent = <<Request(q)>>]]
    /\ UNCHANGED <<cfg, endpoint, retoken, api, jwt, probe>>

\* a call of fetch of the instance
RequestWithAuth(r, skipProactiveRefresh, skipRetry, headers, dateNow) ==
    WrappedFetch(r, Options(skipProactiveRefresh, skipRetry, headers), dateNow)

\* the continuation of `await refresher.refresh()` at line 144, a rejection
\* being caught at line 145, and the request (lines 152-155)
AfterProactive(r) ==
    /\ req[r].pc = "proactive"
    /\ Awaited(r)
    /\ caller' = Resumes(r)
    /\ LET q == Learns(req[r], Outcome(r))
       IN  req' = [req EXCEPT ![r] =
                [q EXCEPT !.pc = "target", !.sent = <<Request(q)>>]]
    /\ UNCHANGED <<cfg, endpoint, store, refreshPromise, op, issued, nCalls, log,
                   retoken, api, jwt, now, tab, peer, probe>>

\* the continuation of `await fetch` at line 152 (lines 152-172): the
\* exception propagates, or refresh() is called and awaited, or the
\* response is returned
ApiResponds(r, a) ==
    /\ req[r].pc = "target"
    /\ ~ReactionPending
    /\ LET q == [req[r] EXCEPT !.responses = Append(@, a.status)]
       IN  IF a.threw
           THEN /\ NoRefreshCall
                /\ req' = [req EXCEPT ![r] =
                        [q EXCEPT !.pc = "done", !.result = Threw(1)]]
           ELSE IF ShouldRetry(q, a.status)
                THEN /\ RefreshCall(r)
                     /\ req' = [req EXCEPT ![r] =
                            [q EXCEPT !.pc = "reactive",
                                      !.refreshes = Append(@, Pending)]]
                ELSE /\ NoRefreshCall
                     /\ req' = [req EXCEPT ![r] =
                            [q EXCEPT !.pc = "done", !.result = Returned(1, a.status)]]
    /\ UNCHANGED <<cfg, endpoint, nCalls, retoken, api, jwt, now, probe>>

\* which response the catch block at lines 166-169 returns
ResponseOnFailure_Rethrown(q) == Threw(1)

\* the catch block throwing the error of the refresh on: no request threw it
ResponseOnFailure_RefreshError(q) == Threw(0)

ResponseOnFailure(q) == Returned(1, q.responses[1])

\* the continuation of `await refresher.refresh()` at line 160: the second
\* request (lines 162-165), or on a rejection the catch block (lines 166-169)
AfterReactive(r) ==
    /\ req[r].pc = "reactive"
    /\ Awaited(r)
    /\ caller' = Resumes(r)
    /\ LET q == Learns(req[r], Outcome(r))
       IN  IF Outcome(r).state = "fulfilled"
           THEN req' = [req EXCEPT ![r] =
                    [q EXCEPT !.pc = "retried", !.sent = Append(@, Request(q))]]
           ELSE req' = [req EXCEPT ![r] =
                    [q EXCEPT !.pc = "done", !.result = ResponseOnFailure(q)]]
    /\ UNCHANGED <<cfg, endpoint, store, refreshPromise, op, issued, nCalls, log,
                   retoken, api, jwt, now, tab, peer, probe>>

\* the promise returned at line 162 settles: its response, or its exception,
\* is the outcome of the call
RetriedResponds(r, a) ==
    /\ req[r].pc = "retried"
    /\ ~ReactionPending
    /\ req' = [req EXCEPT ![r] =
            [req[r] EXCEPT !.pc = "done",
                           !.responses = Append(@, a.status),
                           !.result = IF a.threw THEN Threw(2)
                                      ELSE Returned(2, a.status)]]
    /\ UNCHANGED <<cfg, endpoint, store, refreshPromise, op, caller, issued,
                   nCalls, log, retoken, api, jwt, now, tab, peer, probe>>

\* the instance of createRetoken: its wrapped fetch and its refreshToken
\* over the coordinator
NextFetch ==
    \/ \E c \in Callers : Refresh(c)
    \/ \E g \in Gens : \E r \in Responses(issued + 1) : FetchResponds(g, r)
    \/ \E g \in Gens : Tick(g)
    \/ \E g \in Gens : TimerFires(g)
    \/ \E g \in Gens : OnSettled(g)
    \/ \E g \in Gens : OnFinally(g)
    \/ \E c \in Callers : Resume(c)
    \/ \E r \in Callers : \E skipProactiveRefresh, skipRetry \in BOOLEAN :
        \E headers \in CallerHeaders : \E dateNow \in Times :
            RequestWithAuth(r, skipProactiveRefresh, skipRetry, headers, dateNow)
    \/ \E r \in Callers : AfterProactive(r)
    \/ \E r \in Callers : \E a \in ApiResponses : ApiResponds(r, a)
    \/ \E r \in Callers : AfterReactive(r)
    \/ \E r \in Callers : \E a \in ApiResponses : RetriedResponds(r, a)

SpecFetch == InitFetch /\ [][NextFetch]_vars

\* ------------------------------------------------------------ crossTab.ts
\* the data of a message on the channel: {type: 'LOGOUT'}, an object of
\* another type, none
Payloads == {"LOGOUT", "OTHER", "NONE"}
\* the tokens the other instance holds, and those its refresh obtains
PeerPair == [accessToken |-> 101, refreshToken |-> 102]
PeerIssued == [accessToken |-> 103, refreshToken |-> 104]

\* both instances built, each with or without a channel of the same name
InitTabs ==
    /\ InitWith(1, TabCalls, TabRetries, PlainAnswers)
    /\ cfg.skipOnClientError
    /\ cfg.refreshFailureStatuses = {401, 403}
    /\ retoken = [retryStatuses |-> {401}, expirationLeeway |-> 1]
    /\ api = [statuses |-> {}, throws |-> FALSE]
    /\ jwt = [t \in AccessTokens |-> Token(9)]
    /\ now = 1000
    /\ req = [c \in DOMAIN caller |-> IdleReq]
    /\ probe = NoProbe
    /\ \E n \in {"absent", "open"} : tab = [NoTab EXCEPT !.notifier = n]
    /\ \E n \in {"absent", "open"} :
            peer = [NoPeer EXCEPT !.notifier = n, !.store = PeerPair,
                                  !.nCalls = PeerCalls]

\* what only the wrapped fetch and isTokenExpiringSoon touch
Untouched == UNCHANGED <<cfg, endpoint, issued, retoken, api, jwt, now, req, probe>>

\* broadcastLogout of the instance (createRetoken.ts line 214, crossTab.ts
\* lines 49-51): nothing without a notifier, else channel.postMessage
BroadcastLogout ==
    /\ nCalls > 0
    /\ nCalls' = nCalls - 1
    /\ tab' = IF tab.notifier = "absent" THEN tab
              ELSE [tab EXCEPT !.calls = Append(@, Did(PostMessage(tab), 0, "broadcastLogout")),
                               !.posted = IF Publishes(tab) THEN @ + 1 ELSE @]
    /\ peer' = IF Publishes(tab) THEN Posted(peer, "LOGOUT") ELSE peer
    /\ UNCHANGED <<store, refreshPromise, op, caller, log>>
    /\ Untouched

\* destroy of the instance (createRetoken.ts line 215, crossTab.ts lines
\* 52-54): nothing without a notifier, else channel.close(), after which
\* the channel receives nothing
Destroy ==
    /\ nCalls > 0
    /\ nCalls' = nCalls - 1
    /\ tab' = IF tab.notifier = "absent" THEN tab
              ELSE [tab EXCEPT !.notifier = "closed", !.inbox = <<>>]
    /\ UNCHANGED <<store, refreshPromise, op, caller, log, peer>>
    /\ Untouched

IsLogout_Any(data) == data # "NONE"

\* crossTab.ts line 43: event.data?.type === 'LOGOUT'
IsLogout(data) == data = "LOGOUT"

\* the handler going through the onAuthFailure given to the refresher, which
\* publishes
LogoutReceivedCalls_Rebroadcast ==
    <<Did("clearTokens", 0, "logout"), Did("postMessage", 0, "logout"),
      Did("onAuthFailure", 0, "logout")>>

\* onLogoutReceived, createRetoken.ts lines 89-92
LogoutReceivedCalls ==
    <<Did("clearTokens", 0, "logout"), Did("onAuthFailure", 0, "logout")>>

\* channel.onmessage of the instance (crossTab.ts lines 42-46) for the
\* message that arrives next
Receive ==
    /\ tab.notifier = "open"
    /\ tab.inbox # <<>>
    /\ ~ReactionPending
    /\ IF IsLogout(Head(tab.inbox))
       THEN /\ store' = ClearTokens
            /\ tab' = [tab EXCEPT !.inbox = Tail(@),
                                  !.received = Append(@, Head(tab.inbox)),
                                  !.calls = @ \o LogoutReceivedCalls]
       ELSE /\ tab' = [tab EXCEPT !.inbox = Tail(@),
                                  !.received = Append(@, Head(tab.inbox))]
            /\ UNCHANGED store
    /\ UNCHANGED <<refreshPromise, op, caller, nCalls, log, peer>>
    /\ Untouched

\* a message posted on the channel by a context that is neither instance
Foreign(data) ==
    /\ tab.others < MaxForeign
    /\ tab' = [Posted(tab, data) EXCEPT !.others = @ + 1]
    /\ peer' = Posted(peer, data)
    /\ UNCHANGED <<store, refreshPromise, op, caller, nCalls, log>>
    /\ Untouched

\* ---- the other instance: createRetoken called a second time, with a store
\* and callbacks of its own, no retry delays, cross-tab sync on the same
\* channel name
\* its channel.onmessage and onLogoutReceived
PeerReceive ==
    /\ peer.notifier = "open"
    /\ peer.inbox # <<>>
    /\ ~ReactionPending
    /\ peer' = IF IsLogout(Head(peer.inbox))
               THEN [peer EXCEPT !.inbox = Tail(@),
                                 !.received = Append(@, Head(peer.inbox)),
                                 !.store = NoTokens,
                                 !.calls = @ \o LogoutReceivedCalls]
               ELSE [peer EXCEPT !.inbox = Tail(@),
                                 !.received = Append(@, Head(peer.inbox))]
    /\ UNCHANGED <<store, refreshPromise, op, caller, nCalls, log, tab>>
    /\ Untouched

\* its handleAuthFailure: clearTokens, broadcastLogout, onAuthFailure
PeerFails(p) ==
    [p EXCEPT !.store = NoTokens,
              !.refreshPromise = 0,
              !.calls = @ \o AuthFailureCalls(p, 0)]

PeerAlreadyRefreshing_Shared == peer.refreshPromise # 0 \/ refreshPromise # 0

\* refresher.ts line 179 in the closure of the other construction: the
\* refreshPromise of line 90 is a variable of each call of createRefresher
PeerAlreadyRefreshing == peer.refreshPromise # 0

\* refresh() of the other instance (refresher.ts lines 176-207)
PeerRefresh ==
    /\ peer.nCalls > 0
    /\ IF PeerAlreadyRefreshing
       THEN /\ peer' = [peer EXCEPT !.nCalls = @ - 1]
            /\ UNCHANGED tab
       ELSE IF peer.store.refreshToken = 0
            THEN /\ peer' = [PeerFails(peer) EXCEPT !.nCalls = @ - 1]
                 /\ tab' = IF peer.notifier = "open" THEN Posted(tab, "LOGOUT") ELSE tab
            ELSE /\ peer' = [peer EXCEPT !.nCalls = @ - 1,
                                         !.refreshPromise = 1,
                                         !.exchanges = @ + 1]
                 /\ UNCHANGED tab
    /\ UNCHANGED <<store, refreshPromise, op, caller, nCalls, log>>
    /\ Untouched

\* the refresh endpoint answers the other instance, and the reactions of
\* its promise run (lines 192-204)
PeerSettles(ok) ==
    /\ peer.refreshPromise # 0
    /\ ~ReactionPending
    /\ IF ok
       THEN /\ peer' = [peer EXCEPT !.store = PeerIssued,
                                    !.refreshPromise = 0,
                                    !.calls = @ \o <<Did("setTokens", 0, "success"),
                                                      Did("onTokenRefresh", 0, "success")>>]
            /\ UNCHANGED tab
       ELSE /\ peer' = PeerFails(peer)
            /\ tab' = IF peer.notifier = "open" THEN Posted(tab, "LOGOUT") ELSE tab
    /\ UNCHANGED <<store, refreshPromise, op, caller, nCalls, log>>
    /\ Untouched

\* two instances and the channel between them
NextTabs ==
    \/ \E c \in Callers : Refresh(c)
    \/ \E g \in Gens : \E r \in Responses(issued + 1) : FetchResponds(g, r)
    \/ \E g \in Gens : Tick(g)
    \/ \E g \in Gens : TimerFires(g)
    \/ \E g \in Gens : OnSettled(g)
    \/ \E g \in Gens : OnFinally(g)
    \/ \E c \in Callers : Resume(c)
    \/ BroadcastLogout
    \/ Destroy
    \/ Receive
    \/ \E data \in Payloads : Foreign(data)
    \/ PeerReceive
    \/ PeerRefresh
    \/ \E ok \in BOOLEAN : PeerSettles(ok)

SpecTabs == InitTabs /\ [][NextTabs]_vars

\* ---- calls of the wrapped fetch made at the same time: the token of the
\* login expires within the leeway, or not, and the API answers 200 or 401
InitShared ==
    /\ InitWith(SharedCallers, SharedCalls, SharedRetries, PlainAnswers)
    /\ cfg.skipOnClientError /\ cfg.hasGetter
    /\ cfg.refreshFailureStatuses = {401, 403}
    /\ retoken = [retryStatuses |-> {401}, expirationLeeway |-> 1]
    /\ api = [statuses |-> {200, 401}, throws |-> FALSE]
    /\ \E login \in {Token(2), Token(9)} :
            jwt = [t \in AccessTokens |->
                    IF t = LoginPair.accessToken THEN login ELSE Token(9)]
    /\ now = 1000
    /\ req = [c \in DOMAIN caller |-> IdleReq]
    /\ Alone

NextShared ==
    \/ \E c \in Callers : Refresh(c)
    \/ \E g \in Gens : \E r \in Responses(issued + 1) : FetchResponds(g, r)
    \/ \E g \in Gens : Tick(g)
    \/ \E g \in Gens : TimerFires(g)
    \/ \E g \in Gens : OnSettled(g)
    \/ \E g \in Gens : OnFinally(g)
    \/ \E c \in Callers : Resume(c)
    \/ \E r \in Callers : RequestWithAuth(r, FALSE, FALSE, NoHeaders, 1000)
    \/ \E r \in Callers : AfterProactive(r)
    \/ \E r \in Callers : \E a \in ApiResponses : ApiResponds(r, a)
    \/ \E r \in Callers : AfterReactive(r)
    \/ \E r \in Callers : \E a \in ApiResponses : RetriedResponds(r, a)

SpecShared == InitShared /\ [][NextShared]_vars

\* ------------------------------------------------------- wrappedFetchJson
\* lines 176-183: the options are split and wrappedFetch is called and
\* awaited
RequestJson(r, expectedStatuses, skipProactiveRefresh, skipRetry, headers, dateNow) ==
    WrappedFetch(r, [Options(skipProactiveRefresh, skipRetry, headers) EXCEPT
                        !.json = TRUE, !.expectedStatuses = expectedStatuses],
                 dateNow)

\* line 185
IsExpected(q, status) == status \in q.expectedStatuses

ErrorBody_Null(parses) == "null"

\* lines 186-191: the body of an unexpected response, null when it is no JSON
ErrorBody(parses) == IF parses THEN "parsed" ELSE "null"

\* lines 183-204, what wrappedFetchJson ends with once wrappedFetch has
\* settled: an exception of wrappedFetch passes through; an unexpected status
\* gives a FetchError; then a 204 gives null; else the body is parsed
JsonOutcome(q, parses) ==
    IF q.result.kind = "threw" THEN Propagated(TransportError, FALSE)
    ELSE IF ~IsExpected(q, q.result.status)
         THEN FetchError(q.result.status, ErrorBody(parses))
    ELSE IF q.result.status = 204 THEN NullResult(204)
    ELSE IF parses THEN ParsedBody(q.result.status)
    ELSE Propagated(SyntaxError, TRUE)

\* the continuation of `await wrappedFetch` (line 183) to the end of
\* wrappedFetchJson; parses: whether the body of the response is JSON
JsonSettles(r, parses) ==
    /\ req[r].json
    /\ req[r].pc = "done"
    /\ req[r].outcome.kind = "none"
    /\ req' = [req EXCEPT ![r].outcome = JsonOutcome(req[r], parses)]
    /\ UNCHANGED <<cfg, endpoint, store, refreshPromise, op, caller, issued, nCalls,
                   log, retoken, api, jwt, now, tab, peer, probe>>

\* the answers of the API to a call of fetchJson: a 204 and an exception of
\* fetch among them
JsonApiAnswers == [statuses |-> {200, 204, 401, 404}, throws |-> TRUE]

InitJson ==
    /\ InitWith(RetryCallers, RetryCalls, MaxRetries, AnyAnswer)
    /\ cfg.skipOnClientError
    /\ cfg.refreshFailureStatuses = {401, 403}
    /\ retoken \in RetokenConfigs
    /\ api = JsonApiAnswers
    /\ \E login \in {Token(2), Token(9)} :
            jwt = [t \in AccessTokens |->
                    IF t = LoginPair.accessToken THEN login ELSE Token(9)]
    /\ now = 1000
    /\ req = [c \in DOMAIN caller |-> IdleReq]
    /\ Alone

\* the instance with its fetchJson
NextJson ==
    \/ \E c \in Callers : Refresh(c)
    \/ \E g \in Gens : \E r \in Responses(issued + 1) : FetchResponds(g, r)
    \/ \E g \in Gens : Tick(g)
    \/ \E g \in Gens : TimerFires(g)
    \/ \E g \in Gens : OnSettled(g)
    \/ \E g \in Gens : OnFinally(g)
    \/ \E c \in Callers : Resume(c)
    \/ \E r \in Callers : \E skipProactiveRefresh, skipRetry \in BOOLEAN :
        \E headers \in CallerHeaders : \E dateNow \in Times :
            RequestWithAuth(r, skipProactiveRefresh, skipRetry, headers, dateNow)
    \/ \E r \in Callers : \E expectedStatuses \in ExpectedChoices :
        \E skipProactiveRefresh, skipRetry \in BOOLEAN :
        \E headers \in CallerHeaders : \E dateNow \in Times :
            RequestJson(r, expectedStatuses, skipProactiveRefresh, skipRetry,
                        headers, dateNow)
    \/ \E r \in Callers : AfterProactive(r)
    \/ \E r \in Callers : \E a \in ApiResponses : ApiResponds(r, a)
    \/ \E r \in Callers : AfterReactive(r)
    \/ \E r \in Callers : \E a \in ApiResponses : RetriedResponds(r, a)
    \/ \E r \in Callers : \E parses \in BOOLEAN : JsonSettles(r, parses)

SpecJson == InitJson /\ [][NextJson]_vars

\* ------------------------------------------------------------------ claims
\* a caller whose call joined or started a refresh, and one whose
\* continuation has run since
Joined(c) == caller[c].on # 0
Resumed(c) == caller[c].pc = "idle" /\ caller[c].res.state # "pending"

\* C1: calls of refresh() made in the same period (from Idle until the
\* refresh started in it settles, a refresh token being available or cookie
\* mode being used) all wait for one and the same refresh, the only one whose
\* exchanges are under way, and their continuations see the identical
\* outcome, that of this refresh: the same TokenPair, or the same error.
C1_ConcurrentCallsShareOneRefresh ==
    /\ \A c1, c2 \in Callers :
        (Joined(c1) /\ Joined(c2) /\ caller[c1].window = caller[c2].window)
        => /\ caller[c1].on = caller[c2].on
           /\ (Resumed(c1) /\ Resumed(c2)) => caller[c1].res = caller[c2].res
    /\ \A c \in Callers :
        (caller[c].pc = "waiting" /\ Joined(c) /\ caller[c].on \notin Settled)
        => /\ InFlight = {caller[c].on}
           /\ op[caller[c].on].fetches <= Len(cfg.retryDelays) + 1
    /\ \A c \in Callers :
        (Resumed(c) /\ Joined(c) /\ op[caller[c].on].result.state # "pending")
        => caller[c].res = op[caller[c].on].result

\* two callers called in one period and both were resolved with the pair of
\* one refresh that needed a retry
C1_Witness ==
    \E c1, c2 \in Callers :
        /\ c1 # c2
        /\ Resumed(c1) /\ Resumed(c2) /\ Joined(c1)
        /\ caller[c1].on = caller[c2].on
        /\ caller[c1].res.state = "fulfilled"
        /\ op[caller[c1].on].fetches = 2

\* C2: the refreshes whose promise chain has not finished are exactly the one
\* refreshPromise holds (none when it is null), at most one fetch or backoff
\* sleep is outstanding, and a refresh in the slot has made its first fetch
\* call: the slot is set in the step that starts the exchange.
C2_AtMostOneInFlight ==
    /\ InFlight = (IF refreshPromise = 0 THEN {} ELSE {refreshPromise})
    /\ Cardinality({g \in Gens : op[g].phase \in {"fetching", "sleeping"}}) <= 1
    /\ refreshPromise # 0 => op[refreshPromise].fetches >= 1

\* two callers wait for the one refresh, which sleeps between two attempts
C2_Witness ==
    \E c1, c2 \in Callers :
        /\ c1 # c2
        /\ caller[c1].pc = "waiting" /\ caller[c2].pc = "waiting"
        /\ caller[c1].on = refreshPromise /\ caller[c2].on = refreshPromise
        /\ refreshPromise # 0
        /\ op[refreshPromise].phase = "sleeping"

\* the step in which caller c calls refresh()
CallStep(c) == caller[c].pc = "idle" /\ caller'[c].pc = "waiting"
\* the step starts the exchange of a refresh that had not started
ExchangeStarts(g) == op[g].phase = "none" /\ op'[g].phase = "fetching" /\ op'[g].fetches = 1

\* C3 as stated: once some refresh has settled, every later call of
\* refresh() starts a new exchange and does not get the settled result.
C3_Original ==
    [][\A c \in Callers :
        (CallStep(c) /\ Settled # {})
        => /\ \E g \in Gens : ExchangeStarts(g) /\ caller'[c].on = g
           /\ caller'[c].on \notin Settled]_vars

\* C3, amended: once some refresh has settled, a later call of refresh()
\* never gets a settled result; it starts a new exchange of its own when no
\* refresh is in flight and a refresh token is available (or cookie mode is
\* used). Otherwise it joins the refresh in flight, or fails for want of a
\* refresh token, without an exchange.
C3_LaterCallStartsAnew ==
    [][\A c \in Callers :
        (CallStep(c) /\ Settled # {})
        => /\ caller'[c].on \notin Settled
           /\ (refreshPromise = 0 /\ ~(cfg.hasGetter /\ store.refreshToken = 0))
              => \E g \in Gens :
                    /\ ExchangeStarts(g)
                    /\ caller'[c].on = g
                    /\ refreshPromise' = g
           /\ (refreshPromise # 0 \/ (cfg.hasGetter /\ store.refreshToken = 0))
              => \A g \in Gens : ~ExchangeStarts(g)]_vars

\* a refresh failed terminally, and a call made after it settled waits for
\* a second refresh, whose exchange is under way
C3_Witness ==
    \E c \in Callers :
        /\ caller[c].pc = "waiting"
        /\ caller[c].window >= 1
        /\ Joined(c)
        /\ op[caller[c].on].phase = "fetching"
        /\ \E i \in DOMAIN log : log[i].ev = "onAuthFailure" /\ log[i].gen # 0

\* C4 as stated: whenever the continuation of a caller that waited for a
\* refresh runs, the coordinator is Idle.
C4_Original ==
    \A c \in Callers : (Resumed(c) /\ Joined(c)) => caller[c].slotAtResume = 0

\* C4, amended: whenever the continuation of a caller that waited for a
\* refresh runs, on success or on terminal failure, the slot no longer holds
\* that refresh: it is null, or holds a refresh started after that one
\* settled (by a call made from a continuation that ran earlier). The slot
\* never holds a settled refresh, so no call joins one.
C4_SlotClearedBeforeResume ==
    /\ \A c \in Callers :
        (Resumed(c) /\ Joined(c))
        => /\ caller[c].slotAtResume # caller[c].on
           /\ caller[c].slotAtResume = 0 \/ caller[c].slotAtResume > caller[c].on
    /\ refreshPromise \notin Settled
    /\ \A c \in Callers :
        (caller[c].pc = "waiting" /\ Joined(c) /\ caller[c].on \in Settled)
        => caller[c].window < caller[c].on

\* a caller is rejected after a terminal failure and finds the slot holding
\* a newer refresh
C4_Witness ==
    \E c \in Callers :
        /\ Resumed(c) /\ Joined(c)
        /\ caller[c].res.state = "rejected"
        /\ caller[c].slotAtResume > caller[c].on

\* ---- the exchange with retry of one refresh
Statuses(g) == [i \in DOMAIN op[g].responses |-> op[g].responses[i].status]
Answered(g, i, status) ==
    /\ i \in DOMAIN op[g].responses
    /\ ~op[g].responses[i].threw
    /\ op[g].responses[i].status = status
\* performRefreshWithRetry has returned or thrown
Over(g) == op[g].phase \in {"resolved", "finally", "settled"}
\* handleAuthFailure has run for refresh g: clearTokens, then onAuthFailure
FailureHandled(g) ==
    \E i \in DOMAIN log :
        /\ log[i] = Event("clearTokens", g, NoTokens)
        /\ i + 1 \in DOMAIN log
        /\ log[i + 1] = Event("onAuthFailure", g, NoTokens)
\* the callers of refresh g whose continuation has run
ResumedOn(g) == {c \in Callers : Resumed(c) /\ caller[c].on = g}
\* answer i of refresh g is a 4xx status outside refreshFailureStatuses
ClientErrorAt(g, i) ==
    /\ i \in DOMAIN op[g].responses
    /\ ~op[g].responses[i].threw
    /\ op[g].responses[i].status >= 400
    /\ op[g].responses[i].status < 500
    /\ op[g].responses[i].status \notin cfg.refreshFailureStatuses

\* C5: with retryDelays [d1, d2] and an endpoint answering 500, 500, 200 (500
\* not being a refresh failure status), the refresh makes exactly 3 fetch
\* calls, sleeps d1 after the first failure and d2 after the second, each
\* next call coming no sooner than the sleep is over, and resolves with the
\* pair parsed from the third answer.
C5_RetriesThenSucceeds ==
    \A g \in Gens :
        (/\ Len(cfg.retryDelays) = 2
         /\ 500 \notin cfg.refreshFailureStatuses
         /\ Len(op[g].responses) >= 1
         /\ \A i \in DOMAIN op[g].responses :
                Answered(g, i, IF i = 3 THEN 200 ELSE 500))
        => /\ op[g].fetches <= 3
           /\ op[g].slept = SubSeq(cfg.retryDelays, 1, Len(op[g].slept))
           /\ Len(op[g].waited) = op[g].fetches - 1
           /\ \A i \in DOMAIN op[g].waited : op[g].waited[i] >= cfg.retryDelays[i]
           /\ Len(op[g].responses) < 3
              => /\ ~Over(g)
                 /\ Len(op[g].slept) = Len(op[g].responses)
           /\ Len(op[g].responses) = 3
              => /\ Over(g)
                 /\ op[g].fetches = 3
                 /\ op[g].slept = cfg.retryDelays
                 /\ op[g].result.state = "fulfilled"
                 /\ op[g].result.tokens.accessToken = IssuedData(issued).access_token
                 /\ op[g].result.tokens.refreshToken = IssuedData(issued).refresh_token
                 /\ \A c \in ResumedOn(g) : caller[c].res = op[g].result

\* 500, 500, 200 was answered and the caller holds the pair
C5_Witness ==
    \E g \in Gens :
        /\ Statuses(g) = <<500, 500, 200>>
        /\ \E c \in ResumedOn(g) : caller[c].res.state = "fulfilled"

\* C6: an answer with a status in refreshFailureStatuses is the last exchange
\* of its refresh, whatever retry delays remain and whatever
\* skipOnClientError is: the refresh is rejected with the RefreshError of that
\* status, and clearTokens and the auth-failure callback have run by the time
\* a caller is rejected.
C6_AuthFailureIsTerminal ==
    \A g \in Gens : \A i \in DOMAIN op[g].responses :
        (~op[g].responses[i].threw
         /\ op[g].responses[i].status \in cfg.refreshFailureStatuses)
        => /\ i = Len(op[g].responses)
           /\ op[g].fetches = i
           /\ Over(g)
           /\ op[g].result = Rejected(RefreshError(op[g].responses[i].status))
           /\ op[g].phase \in {"finally", "settled"}
              => FailureHandled(g) /\ store = NoTokens
           /\ \A c \in ResumedOn(g) :
                caller[c].res = op[g].result /\ FailureHandled(g)

\* the first answer is a refresh failure status; two retry delays were left,
\* skipOnClientError is off, and the caller is rejected
C6_Witness ==
    \E g \in Gens :
        /\ Len(op[g].responses) = 1
        /\ op[g].responses[1].status \in cfg.refreshFailureStatuses
        /\ Len(cfg.retryDelays) = 2
        /\ ~cfg.skipOnClientError
        /\ \E c \in ResumedOn(g) : caller[c].res.state = "rejected"

\* C7: with skipOnClientError on, a 4xx answer outside refreshFailureStatuses
\* is the last exchange of its refresh (the only one when it is the first
\* answer): the refresh is rejected with the RefreshError of that status, and
\* clearTokens and the auth-failure callback have run by the time a caller is
\* rejected.
C7_ClientErrorSkipsRetry ==
    \A g \in Gens : \A i \in DOMAIN op[g].responses :
        (cfg.skipOnClientError /\ ClientErrorAt(g, i))
        => /\ i = Len(op[g].responses)
           /\ op[g].fetches = i
           /\ Len(op[g].slept) = i - 1
           /\ Over(g)
           /\ op[g].result = Rejected(RefreshError(op[g].responses[i].status))
           /\ op[g].phase \in {"finally", "settled"}
              => FailureHandled(g) /\ store = NoTokens
           /\ \A c \in ResumedOn(g) :
                caller[c].res = op[g].result /\ FailureHandled(g)

\* 400 was the one answer, with two retry delays left, and the caller is
\* rejected with status 400
C7_Witness ==
    \E g \in Gens :
        /\ cfg.skipOnClientError
        /\ Statuses(g) = <<400>>
        /\ 400 \notin cfg.refreshFailureStatuses
        /\ Len(cfg.retryDelays) = 2
        /\ op[g].fetches = 1
        /\ \E c \in ResumedOn(g) : caller[c].res = Rejected(RefreshError(400))

\* C8: with skipOnClientError off, a 4xx answer outside refreshFailureStatuses
\* that leaves retry attempts is retried: the coordinator sleeps for the next
\* configured delay and then makes another fetch call, and a later 2xx answer
\* resolves the refresh.
C8_ClientErrorRetried ==
    \A g \in Gens : \A i \in DOMAIN op[g].responses :
        (~cfg.skipOnClientError /\ ClientErrorAt(g, i) /\ i <= Len(cfg.retryDelays))
        => /\ Len(op[g].slept) >= i
           /\ op[g].slept[i] = cfg.retryDelays[i]
           /\ IF i = Len(op[g].responses) /\ op[g].phase = "sleeping"
              THEN op[g].delay = cfg.retryDelays[i] /\ op[g].fetches = i
              ELSE /\ op[g].fetches >= i + 1
                   /\ op[g].waited[i] >= cfg.retryDelays[i]
           /\ Answered(g, Len(op[g].responses), 200)
              => /\ op[g].result.state = "fulfilled"
                 /\ \A c \in ResumedOn(g) : caller[c].res.state = "fulfilled"

\* 400 then 200 with skipOnClientError off: the caller holds the pair
C8_Witness ==
    \E g \in Gens :
        /\ ~cfg.skipOnClientError
        /\ Statuses(g) = <<400, 200>>
        /\ 400 \notin cfg.refreshFailureStatuses
        /\ op[g].fetches = 2
        /\ \E c \in ResumedOn(g) : caller[c].res.state = "fulfilled"

\* answer i of refresh g is a failure the coordinator retries while attempts
\* remain: a non-2xx status that is no refresh failure status and no client
\* error skipped
RetryableAt(g, i) ==
    /\ ~op[g].responses[i].threw
    /\ ~ResponseOk(op[g].responses[i])
    /\ op[g].responses[i].status \notin cfg.refreshFailureStatuses
    /\ ~(cfg.skipOnClientError /\ ClientErrorAt(g, i))

\* C9: while every answer of a refresh is a retryable failure, the delays
\* slept are the configured ones in their order, one per failed exchange;
\* the refresh gives up after exactly Len(retryDelays) + 1 fetch calls (1 for
\* no delays), each delay used once, and is rejected with the RefreshError of
\* the last answer's status.
C9_RetriesExhausted ==
    \A g \in Gens :
        (Len(op[g].responses) >= 1
         /\ \A i \in DOMAIN op[g].responses : RetryableAt(g, i))
        => /\ op[g].fetches <= Len(cfg.retryDelays) + 1
           /\ op[g].slept = SubSeq(cfg.retryDelays, 1, Len(op[g].slept))
           /\ Len(op[g].slept) =
                (IF Over(g) THEN Len(op[g].responses) - 1 ELSE Len(op[g].responses))
           /\ Over(g) <=> Len(op[g].responses) = Len(cfg.retryDelays) + 1
           /\ Over(g)
              => /\ op[g].fetches = Len(cfg.retryDelays) + 1
                 /\ op[g].slept = cfg.retryDelays
                 /\ op[g].result =
                      Rejected(RefreshError(op[g].responses[Len(op[g].responses)].status))
                 /\ \A c \in ResumedOn(g) : caller[c].res = op[g].result

\* three server errors used up both delays; the caller is rejected with
\* the status of the last
C9_Witness ==
    \E g \in Gens :
        /\ Len(cfg.retryDelays) = 2
        /\ Len(op[g].responses) = 3
        /\ \A i \in 1..3 : RetryableAt(g, i)
        /\ op[g].responses[3].status = 500
        /\ \E c \in ResumedOn(g) : caller[c].res = Rejected(RefreshError(500))

\* the step in which the continuation of caller c runs
ResumeStep(c) == caller[c].pc = "waiting" /\ caller'[c].pc = "idle"

\* C10: a call of refresh() made in Idle state while a configured
\* refresh-token getter returns nothing makes no fetch call and leaves the
\* slot null; within the call clearTokens and then the auth-failure callback
\* are invoked, and the promise returned is rejected with
\* RefreshError('No refresh token available', 0), which is what the caller's
\* continuation, a later step, receives.
C10_NoRefreshTokenFailsAtOnce ==
    [][\A c \in Callers :
        /\ (CallStep(c) /\ refreshPromise = 0 /\ cfg.hasGetter /\ store.refreshToken = 0)
           => /\ op' = op
              /\ refreshPromise' = 0
              /\ log' = log \o <<Event("clearTokens", 0, NoTokens),
                                  Event("onAuthFailure", 0, NoTokens)>>
              /\ store' = NoTokens
              /\ caller'[c].on = 0
              /\ caller'[c].own = Rejected(RefreshError(0))
        /\ (ResumeStep(c) /\ caller[c].on = 0)
           => /\ caller'[c].res = Rejected(RefreshError(0))
              /\ FailureHandled(0)]_vars

\* a caller was rejected with status 0 although no refresh was ever started
\* for it, the store having been cleared by an earlier terminal failure
C10_Witness ==
    \E c \in Callers :
        /\ Resumed(c)
        /\ caller[c].on = 0
        /\ caller[c].res = Rejected(RefreshError(0))
        /\ cfg.hasGetter
        /\ refreshPromise = 0

\* ---- the callbacks of a refresh and the order they run in
\* positions in the log of the calls of callback ev made for refresh g
CallsOf(ev, g) == {i \in DOMAIN log : log[i].ev = ev /\ log[i].gen = g}
\* the outcome of refresh g is known and it is a TokenPair
Succeeded(g) == Over(g) /\ op[g].result.state = "fulfilled"
\* the .then / .catch reaction of refresh g has run
Reacted(g) == op[g].phase \in {"finally", "settled"}

\* C11: for a refresh that succeeded, setTokens is called once with the
\* parsed pair and the refresh-completion callback once, right after it, with
\* the same pair; until both have run no caller's continuation has run, and
\* every caller resumed afterwards holds that pair; clearTokens and the
\* auth-failure callback are never called for this refresh.
C11_SuccessOrder ==
    \A g \in Gens :
        Succeeded(g)
        => /\ CallsOf("clearTokens", g) = {} /\ CallsOf("onAuthFailure", g) = {}
           /\ ~Reacted(g)
              => /\ CallsOf("setTokens", g) = {} /\ CallsOf("onTokenRefresh", g) = {}
                 /\ ResumedOn(g) = {}
           /\ Reacted(g)
              => /\ \E i \in DOMAIN log :
                        /\ CallsOf("setTokens", g) = {i}
                        /\ CallsOf("onTokenRefresh", g) = {i + 1}
                        /\ log[i].arg = op[g].result.tokens
                        /\ log[i + 1].arg = op[g].result.tokens
                 /\ op[g].phase = "finally"
                    => store = op[g].result.tokens /\ ResumedOn(g) = {}
           /\ \A c \in ResumedOn(g) : caller[c].res = Fulfilled(op[g].result.tokens)

\* two callers waited for one refresh and both were resolved with its pair
\* after setTokens and the callback had been called
C11_Witness ==
    \E g \in Gens : \E c1, c2 \in ResumedOn(g) :
        /\ c1 # c2
        /\ Succeeded(g)
        /\ caller[c1].res.state = "fulfilled"
        /\ CallsOf("onTokenRefresh", g) # {}

\* the outcome of refresh g is known and it is an error
Failed(g) == Over(g) /\ op[g].result.state = "rejected"
\* calls of refresh() that found no refresh token and are rejected for it
\* (their continuation run or not), and the times handleAuthFailure ran
\* within such calls
RejectedAtOnce == {c \in Callers : caller[c].on = 0 /\ caller[c].own.state = "rejected"}
HandledAtOnce ==
    {i \in CallsOf("clearTokens", 0) :
        i + 1 \in DOMAIN log /\ log[i + 1] = Event("onAuthFailure", 0, NoTokens)}

\* C12: a refresh whose exchange ended in an error (a refresh failure status,
\* a client error not retried, or the retries used up) calls clearTokens
\* once and the auth-failure callback once, right after it, before any
\* caller's continuation runs, and never setTokens or the refresh-completion
\* callback; a call rejected for want of a refresh token has made both calls
\* itself. So every caller that observes a rejection finds both calls made,
\* in this order.
C12_FailureHandledFirst ==
    /\ \A g \in Gens :
        Failed(g)
        => /\ CallsOf("setTokens", g) = {} /\ CallsOf("onTokenRefresh", g) = {}
           /\ ~Reacted(g)
              => /\ CallsOf("clearTokens", g) = {} /\ CallsOf("onAuthFailure", g) = {}
                 /\ ResumedOn(g) = {}
           /\ Reacted(g)
              => /\ \E i \in DOMAIN log :
                        /\ CallsOf("clearTokens", g) = {i}
                        /\ CallsOf("onAuthFailure", g) = {i + 1}
                 /\ op[g].phase = "finally"
                    => store = NoTokens /\ ResumedOn(g) = {}
    /\ Cardinality(HandledAtOnce) >= Cardinality(RejectedAtOnce)
    /\ CallsOf("setTokens", 0) = {}
    /\ \A c \in Callers :
        (Resumed(c) /\ caller[c].res.state = "rejected")
        => IF caller[c].on = 0
           THEN caller[c].res = Rejected(RefreshError(0)) /\ FailureHandled(0)
           ELSE /\ caller[c].res = op[caller[c].on].result
                /\ FailureHandled(caller[c].on)
                /\ CallsOf("setTokens", caller[c].on) = {}

\* one caller was rejected by a refresh whose exchange ended on a 4xx status
\* not retried, another by a call that found no refresh token afterwards
C12_Witness ==
    \E c1, c2 \in Callers :
        /\ Resumed(c1) /\ Resumed(c2)
        /\ caller[c1].on # 0
        /\ caller[c1].res = Rejected(RefreshError(401))
        /\ 401 \notin cfg.refreshFailureStatuses
        /\ caller[c2].on = 0
        /\ caller[c2].res = Rejected(RefreshError(0))

\* ---- the wrapped fetch (requestWithAuth)
\* What call q found when it was made: an access token that is a JWT with a
\* numeric exp claim, and the clock within the leeway of that expiration,
\* or still before it.
HadJwt(q) ==
    /\ q.tokenAtCall # 0
    /\ jwt[q.tokenAtCall].parts = 3
    /\ jwt[q.tokenAtCall].hasExp
ExpiringWithinLeeway(q) ==
    /\ HadJwt(q)
    /\ q.calledAt + retoken.expirationLeeway * 1000 >= jwt[q.tokenAtCall].exp * 1000
NotExpiring(q) ==
    /\ HadJwt(q)
    /\ q.calledAt + retoken.expirationLeeway * 1000 < jwt[q.tokenAtCall].exp * 1000
\* calls of the wrapped fetch made, and those that have issued their target
\* request
Called == {r \in Callers : req[r].pc # "idle"}
TargetIssued(q) == Len(q.sent) >= 1

\* C13: a call made without skipProactiveRefresh while the access token is
\* expiring within the leeway calls refresh() once before its target request
\* and issues that request only after this refresh has settled; a call made
\* while the token is not expiring within the leeway issues its target
\* request at once, without a call of refresh() before it.
C13_ProactiveRefreshFirst ==
    \A r \in Called :
        LET q == req[r]
        IN  /\ (~q.skipProactiveRefresh /\ ExpiringWithinLeeway(q))
               => /\ Len(q.refreshes) >= 1
                  /\ q.pc = "proactive"
                     => q.sent = <<>> /\ q.refreshes = <<Pending>>
                  /\ TargetIssued(q)
                     => /\ q.sent[1].refreshes = 1
                        /\ q.refreshes[1].state # "pending"
                  /\ q.pc = "target"
                     => /\ caller[r].pc = "idle"
                        /\ Joined(r) => /\ op[caller[r].on].phase = "settled"
                                        /\ refreshPromise # caller[r].on
            /\ (~q.skipProactiveRefresh /\ NotExpiring(q))
               => /\ q.pc # "proactive"
                  /\ TargetIssued(q)
                  /\ q.sent[1].refreshes = 0

\* a call found a token inside the leeway but not yet expired, refreshed
\* with success and then issued its target request
C13_Witness ==
    \E r \in Called :
        /\ ~req[r].skipProactiveRefresh
        /\ ExpiringWithinLeeway(req[r])
        /\ req[r].calledAt < jwt[req[r].tokenAtCall].exp * 1000
        /\ TargetIssued(req[r])
        /\ req[r].sent[1].refreshes = 1
        /\ req[r].refreshes[1].state = "fulfilled"

\* the headers of a request built from the caller's headers and token
HeadersWith(customHeaders, token) ==
    IF token = 0 THEN NewHeaders(customHeaders)
    ELSE HeadersSet(NewHeaders(customHeaders), "Authorization", Bearer(token))
\* call q called refresh() before its target request, and was rejected
ProactiveFailed(q) ==
    /\ TargetIssued(q)
    /\ q.sent[1].refreshes = 1
    /\ q.refreshes[1].state = "rejected"

\* C14 as stated: when the refresh made before the target request fails,
\* the target request is issued as it would have been without a refresh,
\* that is with the bearer token the call found in the store, and the call
\* ends with a response, not with the error of the refresh.
C14_ProactiveFailureSwallowed ==
    \A r \in Called :
        LET q == req[r]
        IN  /\ (q.pc = "proactive" /\ Awaited(r)) => ENABLED AfterProactive(r)
            /\ ProactiveFailed(q)
               => /\ q.sent[1].headers = HeadersWith(q.headers, q.tokenAtCall)
                  /\ q.pc = "done" => q.result.kind = "response"

\* the reply to the target request of call q is known, and it is a status
\* in retryStatuses
RetryStatusAnswered(q) ==
    /\ Len(q.responses) >= 1
    /\ q.responses[1] \in retoken.retryStatuses
\* the latest call of refresh() made by call q
LastRefresh(q) == q.refreshes[Len(q.refreshes)]

\* C15: when the target request of a call made without skipRetry is answered
\* with a status in retryStatuses, the call calls refresh() once more, once;
\* while that refresh is pending no second request is issued; when it
\* succeeds exactly one more request is issued, after it, and the response
\* to that request is what the call returns, whatever its status: no third
\* request and no further call of refresh() follow.
C15_RetryOnceAfterRefresh ==
    \A r \in Called :
        LET q == req[r]
        IN  (RetryStatusAnswered(q) /\ ~q.skipRetry)
            => /\ Len(q.refreshes) = q.sent[1].refreshes + 1
               /\ Len(q.sent) <= 2
               /\ q.pc \in {"reactive", "retried", "done"}
               /\ q.pc = "reactive"
                  => Len(q.sent) = 1 /\ LastRefresh(q) = Pending
               /\ q.pc = "retried"
                  => LastRefresh(q).state = "fulfilled" /\ Len(q.responses) = 1
               /\ (q.pc # "reactive" /\ LastRefresh(q).state = "fulfilled")
                  => /\ Len(q.sent) = 2
                     /\ q.sent[2].refreshes = Len(q.refreshes)
               /\ (q.pc = "done" /\ LastRefresh(q).state = "fulfilled")
                  => /\ Len(q.responses) = 2
                     /\ q.result = Returned(2, q.responses[2])

\* 403 being a retry status, a call answered 403 refreshed with success,
\* sent its request again, was answered 403 again and returned that
C15_Witness ==
    \E r \in Called :
        /\ req[r].pc = "done"
        /\ ~req[r].skipRetry
        /\ req[r].responses = <<403, 403>>
        /\ 403 \in retoken.retryStatuses
        /\ LastRefresh(req[r]).state = "fulfilled"
        /\ req[r].result = Returned(2, 403)

\* the refresh() call that the reply to the target request of call q
\* triggered has been rejected, and the continuation of q has run
ReactiveFailed(q) ==
    /\ RetryStatusAnswered(q) /\ ~q.skipRetry
    /\ Len(q.refreshes) = q.sent[1].refreshes + 1
    /\ q.pc # "reactive"
    /\ LastRefresh(q).state = "rejected"

\* C16: when the refresh triggered by a retry status fails, the call ends
\* with the response to its target request, the one with that status, not
\* with an exception, and issues no second request.
C16_ReactiveFailureReturnsOriginal ==
    \A r \in Called :
        LET q == req[r]
        IN  ReactiveFailed(q)
            => /\ q.pc = "done"
               /\ q.result = Returned(1, q.responses[1])
               /\ Len(q.sent) = 1
               /\ Len(q.responses) = 1

\* a call answered 401 called refresh(), which the refresh endpoint refused
\* with 401, and returned the first 401
C16_Witness ==
    \E r \in Called :
        /\ ReactiveFailed(req[r])
        /\ req[r].sent[1].refreshes = 0
        /\ LastRefresh(req[r]) = Rejected(RefreshError(401))
        /\ req[r].result = Returned(1, 401)

\* C17: a call made with skipRetry issues one request only, calls refresh()
\* at no time after that request was issued, and returns the response to it
\* whatever its status, a status in retryStatuses included.
C17_SkipRetryIssuesOnce ==
    \A r \in Called :
        LET q == req[r]
        IN  q.skipRetry
            => /\ Len(q.sent) <= 1
               /\ q.pc \notin {"reactive", "retried"}
               /\ TargetIssued(q) => Len(q.refreshes) = q.sent[1].refreshes
               /\ Len(q.responses) >= 1
                  => /\ q.pc = "done"
                     /\ Len(q.sent) = 1
                     /\ Len(q.responses) = 1
                     /\ q.result = Returned(1, q.responses[1])

\* a call made with skipRetry was answered 401, a retry status, and
\* returned it
C17_Witness ==
    \E r \in Called :
        /\ req[r].skipRetry
        /\ req[r].pc = "done"
        /\ req[r].responses = <<401>>
        /\ 401 \in retoken.retryStatuses
        /\ req[r].result = Returned(1, 401)

\* C18: a call made with skipProactiveRefresh issues its target request at
\* once, without a call of refresh() before it, whatever the access token
\* is: absent, no JWT, without an exp claim, or expiring within the leeway.
C18_SkipProactiveNeverRefreshesFirst ==
    \A r \in Called :
        LET q == req[r]
        IN  q.skipProactiveRefresh
            => /\ q.pc # "proactive"
               /\ TargetIssued(q)
               /\ q.sent[1].refreshes = 0

\* a call made with skipProactiveRefresh while the store held no access
\* token (a failed refresh had cleared it) issued its request
C18_Witness ==
    \E r \in Called :
        /\ req[r].skipProactiveRefresh
        /\ req[r].tokenAtCall = 0
        /\ TargetIssued(req[r])
        /\ \E i \in DOMAIN log : log[i].ev = "clearTokens"

\* the Authorization header of the i-th request of call q is the bearer
\* header of this token
CarriesBearer(q, i, token) ==
    /\ "authorization" \in DOMAIN q.sent[i].headers
    /\ q.sent[i].headers["authorization"] = Bearer(token)

\* C19: a request issued while the store holds an access token carries the
\* bearer header of the token the store holds at that moment. So the target
\* request issued after a successful proactive refresh carries the access
\* token of the pair that refresh stored, and the request issued again after
\* a successful reactive refresh the access token of the pair stored by that
\* one: a newly issued token, not the one the call found or sent before.
C19_HeaderFromCurrentToken ==
    \A r \in Called :
        LET q == req[r]
        IN  /\ \A i \in DOMAIN q.sent :
                q.sent[i].token # 0 => CarriesBearer(q, i, q.sent[i].token)
            /\ (TargetIssued(q) /\ q.sent[1].refreshes = 1
                /\ q.refreshes[1].state = "fulfilled")
               => /\ CarriesBearer(q, 1, q.refreshes[1].tokens.accessToken)
                  /\ q.refreshes[1].tokens.accessToken # q.tokenAtCall
            /\ Len(q.sent) = 2
               => /\ LastRefresh(q).state = "fulfilled"
                  /\ CarriesBearer(q, 2, LastRefresh(q).tokens.accessToken)
                  /\ LastRefresh(q).tokens.accessToken # q.sent[1].token
                  /\ LastRefresh(q).tokens.accessToken # q.tokenAtCall

\* one call refreshed before its target request and again after a 401: it
\* found the token of the login, sent the target request with the token of
\* the first refresh and the second request with that of the second
C19_Witness ==
    \E r \in Called :
        /\ Len(req[r].sent) = 2
        /\ req[r].sent[1].refreshes = 1
        /\ req[r].tokenAtCall = LoginPair.accessToken
        /\ CarriesBearer(req[r], 1, IssuedData(1).access_token)
        /\ CarriesBearer(req[r], 2, IssuedData(2).access_token)

\* C20: a request issued while the store holds no access token has the
\* headers the caller supplied and no other: no Authorization header is
\* added (one the caller supplied stays as it is).
C20_NoTokenNoAuthorization ==
    \A r \in Called :
        LET q == req[r]
        IN  \A i \in DOMAIN q.sent :
                q.sent[i].token = 0
                => /\ DOMAIN q.sent[i].headers = {Lower(k) : k \in DOMAIN q.headers}
                   /\ \A k \in DOMAIN q.headers :
                        q.sent[i].headers[Lower(k)] = q.headers[k]

\* a call that supplied headers issued its request after a failed refresh
\* had cleared the store
C20_Witness ==
    \E r \in Called :
        /\ TargetIssued(req[r])
        /\ req[r].sent[1].token = 0
        /\ req[r].headers # NoHeaders
        /\ "x-custom" \in DOMAIN req[r].sent[1].headers

\* a call of fetchJson by caller r has ended, wrappedFetch having returned
\* a response
JsonAnswered(r) ==
    /\ req[r].json
    /\ req[r].outcome.kind # "none"
    /\ req[r].result.kind = "response"

\* C21: fetchJson returns null, without reading the body and without an
\* error, whenever the status of the final response is 204, whether or not
\* 204 is among the expected statuses of the call (the default ones too).
C21_NoContentGivesNull ==
    \A r \in Callers :
        (JsonAnswered(r) /\ req[r].result.status = 204)
            => req[r].outcome = NullResult(204)

\* C22: when the status of the final response is not 204, fetchJson throws
\* a FetchError exactly when the status is not among the expected ones; the
\* error carries that status and the parsed body, or null for a body that
\* does not parse; an expected status returns the parsed body.
C22_FetchErrorIffUnexpected ==
    [][\A r \in Callers : \A parses \in BOOLEAN :
        LET q == req[r]
            o == req'[r].outcome
        IN  (JsonSettles(r, parses) /\ q.result.kind = "response"
                /\ q.result.status # 204)
            => /\ o.name = "FetchError" <=> q.result.status \notin q.expectedStatuses
               /\ q.result.status \notin q.expectedStatuses
                  => /\ o.kind = "error"
                     /\ o.status = q.result.status
                     /\ o.body = (IF parses THEN "parsed" ELSE "null")
               /\ (q.result.status \in q.expectedStatuses /\ parses)
                  => o = ParsedBody(q.result.status)]_vars

\* under the default expected statuses the response to the retried request,
\* a 404 with a JSON body or a 401 with none, became a FetchError with that
\* status and body
C22_Witness ==
    \E r \in Callers :
        /\ JsonAnswered(r)
        /\ req[r].expectedStatuses = {200, 201}
        /\ \/ req[r].result.status = 404 /\ req[r].outcome = FetchError(404, "parsed")
           \/ req[r].result.status = 401 /\ req[r].outcome = FetchError(401, "null")
        /\ Len(req[r].responses) = 2

\* exchange i of refresh g ended with an exception of fetch
ExchangeThrew(g, i) == i \in DOMAIN op[g].responses /\ op[g].responses[i].threw
\* request i of call q ended with an exception of fetch
RequestThrew(q, i) == i \in DOMAIN q.responses /\ q.responses[i] = 0
\* the exchanges performRefreshWithRetry makes at most (line 142)
MaxAttempts == Len(cfg.retryDelays) + 1

\* C23 as stated: an exception thrown by fetch is never caught: whichever
\* exchange throws it (the target request, the retried request, a refresh
\* exchange), what was under way ends there with that exception, which
\* reaches the caller.
C23_TransportErrorsPropagate ==
    /\ \A r \in Called : \A i \in 1..2 :
        RequestThrew(req[r], i)
            => req[r].pc = "done" /\ req[r].result = Threw(i)
    /\ \A g \in Gens : \A i \in 1..(MaxRetries + 1) :
        ExchangeThrew(g, i)
            => /\ Over(g)
               /\ op[g].result = Rejected(TransportError)
               /\ \A c \in ResumedOn(g) :
                    /\ caller[c].res = Rejected(TransportError)
                    /\ req[c].pc = "done" => req[c].result.kind = "threw"

\* C23, amended: an exception thrown by the target request or by the
\* retried request ends the call with that exception. One thrown by a
\* refresh exchange is caught by performRefreshWithRetry: unless it was the
\* last attempt the refresh sleeps and tries again; thrown by the last
\* attempt it becomes, unchanged, the rejection of the refresh, which a
\* direct caller of refresh() sees as it is and which a call of the wrapped
\* fetch absorbs like any other failed refresh (the call still ends with a
\* response, or with the exception of its own request).
C23_TransportErrorsOfRequestsPropagate ==
    /\ \A r \in Called : \A i \in 1..2 :
        RequestThrew(req[r], i)
            => req[r].pc = "done" /\ req[r].result = Threw(i)
    /\ \A g \in Gens : \A i \in 1..(MaxRetries + 1) :
        ExchangeThrew(g, i)
            => /\ (i < MaxAttempts /\ Len(op[g].responses) = i)
                  => /\ op[g].phase \in {"sleeping", "fetching"}
                     /\ op[g].phase = "fetching" => op[g].attempt = i
               /\ (i = MaxAttempts)
                  => /\ Over(g)
                     /\ op[g].result = Rejected(TransportError)
                     /\ \A c \in ResumedOn(g) :
                            /\ caller[c].res = Rejected(TransportError)
                            /\ req[c].pc = "done"
                               => \/ req[c].result.kind = "response"
                                  \/ \E k \in 1..2 : /\ req[c].result = Threw(k)
                                                     /\ RequestThrew(req[c], k)

\* a refresh called before the target request threw in its first exchange,
\* went on to a second one, which threw too and was the last; the call
\* absorbed that exception, issued its target request, and ended with the
\* exception this one threw
C23_Witness ==
    \E r \in Called : \E g \in Gens :
        /\ MaxAttempts = 2
        /\ caller[r].on = g
        /\ ExchangeThrew(g, 1) /\ ExchangeThrew(g, 2)
        /\ req[r].refreshes = <<Rejected(TransportError)>>
        /\ RequestThrew(req[r], 1)
        /\ req[r].result = Threw(1)

\* call q called refresh() and that was rejected with a RefreshError
RefreshErrorSeen(q) ==
    \E k \in DOMAIN q.refreshes :
        /\ q.refreshes[k].state = "rejected"
        /\ q.refreshes[k].error.name = "RefreshError"

Probed == jwt[probe.token]

\* C28: isTokenExpiringSoon(token, leewaySeconds) is true when the token is
\* null or empty, when its expiration cannot be parsed (it has not three
\* parts, or its payload no numeric exp), and when Date.now() has reached
\* the expiration minus the leeway, the instant of equality included; it is
\* false in every other case, as for a token that expires two leeways from
\* now.
C28_ExpiringSoon ==
    probe.asked
    => /\ probe.result
          <=> \/ probe.token = 0
              \/ Probed.parts # 3
              \/ ~Probed.hasExp
              \/ probe.now >= (Probed.exp - probe.leeway) * 1000
       /\ (/\ probe.token # 0 /\ Probed.parts = 3 /\ Probed.hasExp
           /\ probe.leeway > 0
           /\ Probed.exp * 1000 = probe.now + 2 * probe.leeway * 1000)
          => ~probe.result

\* a token is found expiring soon at the very instant its expiration minus
\* a leeway of one second is reached
C28_Witness ==
    /\ probe.asked
    /\ probe.token # 0
    /\ Probed = Token(3)
    /\ probe.leeway = 1
    /\ probe.now = 2000
    /\ probe.result

\* how many times x occurs in the sequence seq
Occurrences(seq, x) == Cardinality({i \in DOMAIN seq : seq[i] = x})
\* the calls an instance made because of messages, against the logout
\* messages its channel.onmessage was called with
HandledOncePerLogout(t) ==
    /\ Occurrences(t.calls, Did("clearTokens", 0, "logout"))
        = Occurrences(t.received, "LOGOUT")
    /\ Occurrences(t.calls, Did("onAuthFailure", 0, "logout"))
        = Occurrences(t.received, "LOGOUT")

\* C25: an instance with cross-tab sync to which a logout message is
\* delivered calls its clearTokens and its onAuthFailure once each for that
\* message; a delivered message without data, or with data of another type,
\* makes it call neither. So for the messages this instance publishes and
\* the other receives, and the other way round.
C25_LogoutDelivered ==
    /\ HandledOncePerLogout(tab)
    /\ HandledOncePerLogout(peer)
    /\ Len(peer.received) <= tab.posted + tab.others
    /\ Occurrences(peer.received, "LOGOUT") > 0 => peer.store.refreshToken # PeerPair.refreshToken

\* the other instance was handed a message of another context that is no
\* logout and then the logout this instance published: it has called its
\* clearTokens and its onAuthFailure once
C25_Witness ==
    /\ tab.posted = 1
    /\ Len(peer.received) = 2
    /\ peer.received[1] # "LOGOUT"
    /\ peer.received[2] = "LOGOUT"
    /\ peer.calls = LogoutReceivedCalls
    /\ peer.store = NoTokens

\* the calls of channel.postMessage among the calls t made
PostCalls(t) ==
    {i \in DOMAIN t.calls : t.calls[i].ev \in {"postMessage", "postMessageThrew"}}

\* C26: an instance built with cross-tab sync off, or where there is no
\* BroadcastChannel, has no notifier: nothing is ever published by it, be it
\* by broadcastLogout(), by destroy() or by a refresh that fails for good,
\* nothing is delivered to it, none of these calls throws, and
\* broadcastLogout() and destroy() leave the token store and the state of
\* the coordinator as they were.
C26_AbsentNotifierIsNoOp ==
    /\ [](tab.notifier = "absent"
            => /\ tab.posted = 0
               /\ PostCalls(tab) = {}
               /\ tab.received = <<>>
               /\ Len(peer.received) + Len(peer.inbox) <= tab.others
               /\ \A c \in Callers : caller[c].res.error # InvalidStateError)
    /\ [][(tab.notifier = "absent" /\ (BroadcastLogout \/ Destroy))
            => UNCHANGED <<store, refreshPromise, op, caller, log, tab, peer>>]_vars

\* an instance without notifier whose refresh was refused for good, and on
\* which broadcastLogout() or destroy() was called: the other instance,
\* whose channel is open, got nothing
C26_Witness ==
    /\ tab.notifier = "absent"
    /\ peer.notifier = "open"
    /\ nCalls = 0
    /\ Started = {1}
    /\ tab.calls = <<Did("clearTokens", 1, "failure"), Did("onAuthFailure", 1, "failure")>>
    /\ peer.inbox = <<>> /\ peer.received = <<>>

\* the refreshes that can fail: those started, and with 0 the call that
\* found no refresh token
Failures == Gens \cup {0}

C29_IsolatedCoordinators ==
    [][/\ (PeerRefresh /\ peer.refreshPromise = 0 /\ peer.store.refreshToken # 0)
            => /\ peer'.refreshPromise # 0
               /\ peer'.exchanges = peer.exchanges + 1
       /\ \A c \in Callers :
            (Refresh(c) /\ refreshPromise = 0
                /\ (cfg.hasGetter => store.refreshToken # 0))
            => /\ refreshPromise' # 0
               /\ op'[refreshPromise'].phase = "fetching"
               /\ op'[refreshPromise'].fetches = 1
               /\ caller'[c].on = refreshPromise'
       /\ (refreshPromise' # refreshPromise \/ op' # op)
            => /\ peer'.refreshPromise = peer.refreshPromise
               /\ peer'.exchanges = peer.exchanges
       /\ (peer'.refreshPromise # peer.refreshPromise
                \/ peer'.exchanges # peer.exchanges)
            => UNCHANGED <<refreshPromise, op, caller>>]_vars

\* a refresh of each instance is in flight, each with an exchange of its own
C29_Witness ==
    /\ refreshPromise # 0
    /\ op[refreshPromise].phase = "fetching"
    /\ op[refreshPromise].fetches = 1
    /\ peer.refreshPromise # 0
    /\ peer.exchanges = 1

\* call r of the wrapped fetch is at its await of refresh(), before its
\* target request or after the reply to it, and the promise it awaits has
\* not settled
WaitsForRefresh(r) ==
    /\ req[r].pc \in {"proactive", "reactive"}
    /\ caller[r].pc = "waiting"
    /\ Joined(r)
    /\ ~SettledFor(op[caller[r].on])

\* C30: calls of the wrapped fetch that need a refresh at the same time,
\* before their target request because the token is expiring or after it
\* because it was answered with a retry status, wait for one and the same
\* refresh: it is the only one in flight, its exchanges are the only ones
\* made, none of the calls issues its next request while it waits, and the
\* calls that waited for it go on with the same outcome.
C30_RequestsShareOneRefresh ==
    /\ \A r1, r2 \in Called :
        (WaitsForRefresh(r1) /\ WaitsForRefresh(r2))
            => /\ caller[r1].on = caller[r2].on
               /\ refreshPromise = caller[r1].on
               /\ InFlight = {caller[r1].on}
               /\ op[caller[r1].on].fetches <= MaxAttempts
    /\ \A r \in Called :
        WaitsForRefresh(r)
            => /\ Len(req[r].sent) = (IF req[r].pc = "proactive" THEN 0 ELSE 1)
               /\ LastRefresh(req[r]) = Pending
    /\ \A r1, r2 \in Called :
        (/\ Joined(r1) /\ caller[r1].on = caller[r2].on
         /\ Resumed(r1) /\ Resumed(r2)
         /\ Len(req[r1].refreshes) > 0 /\ Len(req[r2].refreshes) > 0)
            => /\ caller[r1].res = op[caller[r1].on].result
               /\ caller[r2].res = caller[r1].res

\* two calls, both answered 401, awaited the same refresh, the only one
\* started, which made one exchange; both have gone on to their second
\* request with its outcome
C30_Witness ==
    /\ \A r \in Callers :
        /\ req[r].pc = "retried"
        /\ Len(req[r].refreshes) = 1
        /\ LastRefresh(req[r]).state = "fulfilled"
        /\ caller[r].on = 1
    /\ Cardinality(Callers) = 2
    /\ Started = {1}
    /\ op[1].fetches = 1

\* C31: an exchange of a refresh carries a body exactly when the coordinator
\* has a refresh token to send, that is when getRefreshToken is configured
\* (and returned one, or no exchange is made at all); the body is built from
\* that token in every attempt. Without getRefreshToken (cookie mode) no
\* attempt, the first or a retry, carries a body.
C31_BodyIffRefreshToken ==
    \A g \in Gens :
        /\ Len(op[g].bodies) = op[g].fetches
        /\ \A i \in DOMAIN op[g].bodies :
            /\ op[g].bodies[i] # 0 <=> cfg.hasGetter
            /\ cfg.hasGetter
                => /\ op[g].refreshToken # 0
                   /\ op[g].bodies[i] = op[g].refreshToken
            /\ ~cfg.hasGetter => op[g].refreshToken = 0

\* in cookie mode a refresh has made three exchanges, none with a body
C31_Witness ==
    \E g \in Gens :
        /\ ~cfg.hasGetter
        /\ op[g].fetches = 3
        /\ op[g].bodies = <<0, 0, 0>>

\* C32: a call of refresh() made while a refresh is in flight, whatever that
\* refresh is doing (waiting for the response, sleeping between two attempts,
\* or about to run its reactions), waits for that refresh: the step starts no
\* exchange and leaves the attempt counter, the timer and the slot as they
\* were. The attempt counter of a refresh that has made an exchange is always
\* one less than the exchanges it has made, and these never exceed
\* len(retryDelays) + 1.
C32_JoiningLeavesRetriesAlone ==
    /\ [](\A g \in Gens :
            op[g].fetches > 0
            => /\ op[g].fetches = op[g].attempt + 1
               /\ op[g].fetches <= MaxAttempts)
    /\ [][\A c \in Callers :
            (CallStep(c) /\ InFlight # {})
            => /\ op' = op
               /\ refreshPromise' = refreshPromise
               /\ caller'[c].on \in InFlight
               /\ caller'[c].own = Pending
               /\ caller'[c].found = op[caller'[c].on].phase]_vars

\* a call made while the refresh slept after its first attempt was resolved,
\* with another that had started the refresh, by the second and last attempt
C32_Witness ==
    \E c1, c2 \in Callers :
        /\ caller[c1].found = "none" /\ caller[c2].found = "sleeping"
        /\ caller[c1].on = caller[c2].on
        /\ Resumed(c1) /\ Resumed(c2)
        /\ caller[c2].res.state = "fulfilled"
        /\ op[caller[c2].on].fetches = MaxAttempts
        /\ op[caller[c2].on].attempt = 1

\* the calls of callback ev made for refresh g, counted
Count(ev, g) == Cardinality(CallsOf(ev, g))

\* C33: however many callers wait for one refresh, once its reaction has run
\* it has called setTokens once and the refresh-completion callback once
\* when it succeeded, clearTokens once and the auth-failure callback once
\* when it failed, and nothing of the other pair; before that it has called
\* none of them. A caller that joins the refresh or resumes from it calls
\* none of them and leaves the store alone.
C33_SideEffectsOncePerRefresh ==
    /\ [](\A g \in Gens :
            /\ (Over(g) /\ Reacted(g) /\ op[g].result.state = "fulfilled")
               => /\ Count("setTokens", g) = 1 /\ Count("onTokenRefresh", g) = 1
                  /\ Count("clearTokens", g) = 0 /\ Count("onAuthFailure", g) = 0
            /\ (Over(g) /\ Reacted(g) /\ op[g].result.state = "rejected")
               => /\ Count("clearTokens", g) = 1 /\ Count("onAuthFailure", g) = 1
                  /\ Count("setTokens", g) = 0 /\ Count("onTokenRefresh", g) = 0
            /\ (g \in Started /\ ~Reacted(g))
               => \A ev \in {"setTokens", "onTokenRefresh", "clearTokens", "onAuthFailure"} :
                    Count(ev, g) = 0)
    /\ [][\A c \in Callers :
            ((CallStep(c) /\ InFlight # {}) \/ (ResumeStep(c) /\ Joined(c)))
            => log' = log /\ store' = store]_vars

\* a caller joined a refresh another had started, which failed, and was
\* rejected, clearTokens and the auth-failure callback having been called
\* once for it; the other caller then started a refresh alone, which
\* succeeded, with setTokens and the completion callback called once
C33_Witness ==
    \E c1, c2 \in Callers :
        /\ Resumed(c1) /\ Resumed(c2)
        /\ Joined(c1) /\ Joined(c2) /\ caller[c1].on # caller[c2].on
        /\ caller[c2].found \in {"fetching", "sleeping"}
        /\ caller[c2].res.state = "rejected"
        /\ Count("clearTokens", caller[c2].on) = 1
        /\ Count("onAuthFailure", caller[c2].on) = 1
        /\ caller[c1].res.state = "fulfilled"
        /\ Count("setTokens", caller[c1].on) = 1
        /\ Count("onTokenRefresh", caller[c1].on) = 1

\* C34: provided every fetch call returns or throws and every backoff timer
\* fires, a refresh that has started always reaches the end of its promise
\* chain, every caller that waits for a refresh is resumed with an outcome,
\* fulfilled or rejected, and a non-null refreshPromise always becomes null
\* again. No step takes a refresh in flight back or drops it: it goes on
\* whether or not a caller still waits.
C34_EveryRefreshSettles ==
    /\ \A g \in Gens : (g \in InFlight) ~> (g \in Settled)
    /\ \A c \in 1..NCallers :
        (caller[c].pc = "waiting")
            ~> (caller[c].pc = "idle" /\ caller[c].res.state \in {"fulfilled", "rejected"})
    /\ (refreshPromise # 0) ~> (refreshPromise = 0)
    /\ [][\A g \in Gens : g \in InFlight => op'[g].phase # "none"]_vars

\* a refresh whose first fetch threw slept, was joined meanwhile, and
\* succeeded at the second attempt; both callers were resolved and the slot
\* is null again
C34_Witness ==
    \E g \in Settled : \E c \in Callers :
        /\ refreshPromise = 0
        /\ Len(op[g].responses) = 2 /\ op[g].responses[1].threw
        /\ op[g].result.state = "fulfilled"
        /\ caller[c].on = g /\ caller[c].found = "sleeping"
        /\ \A d \in Callers : Resumed(d) /\ caller[d].res = op[g].result

\* the calls of callback ev made so far, for any refresh or none
Total(ev) == Cardinality({i \in DOMAIN log : log[i].ev = ev})
\* one call of the wrapped fetch calls refresh() at most once before its
\* target request and at most once after the response to it, and issues at
\* most two requests
AtMostTwice(q) ==
    /\ Len(q.refreshes) <= 2
    /\ Len(q.sent) <= 2
    /\ \A i \in DOMAIN q.sent : q.sent[i].refreshes \in {i - 1, i}
    /\ TargetIssued(q) => Len(q.refreshes) <= q.sent[1].refreshes + 1

\* C35 as stated: a call calls refresh() at most twice and issues at most
\* two requests, and whenever its proactive refresh failed and the response
\* to the target request has a status in retryStatuses, it calls refresh()
\* again.
C35_Original ==
    \A r \in Called :
        LET q == req[r]
        IN  /\ AtMostTwice(q)
            /\ (ProactiveFailed(q) /\ RetryStatusAnswered(q))
               => Len(q.refreshes) = 2

\* C35, amended: a call calls refresh() at most twice (at most once before
\* the target request, at most once after the response to it) and issues at
\* most two requests; whenever its proactive refresh failed and the response
\* to the target request has a status in retryStatuses, it calls refresh()
\* again if the call was made without skipRetry, and not if it was made with
\* it.
C35_AtMostTwoRefreshes ==
    \A r \in Called :
        LET q == req[r]
        IN  /\ AtMostTwice(q)
            /\ (ProactiveFailed(q) /\ RetryStatusAnswered(q))
               => (Len(q.refreshes) = 2 <=> ~q.skipRetry)

\* the only call made so far had its proactive refresh rejected by the
\* refresh endpoint, was answered with a retry status, called refresh()
\* again, which was rejected for want of a refresh token, and returned the
\* response: clearTokens and the auth-failure callback have run twice each
C35_Witness ==
    \E r \in Called :
        LET q == req[r]
        IN  /\ nCalls = FetchCalls - 1
            /\ q.pc = "done"
            /\ ProactiveFailed(q) /\ RetryStatusAnswered(q)
            /\ Len(q.refreshes) = 2
            /\ q.refreshes[2] = Rejected(RefreshError(0))
            /\ Len(q.sent) = 1
            /\ Total("clearTokens") = 2 /\ Total("onAuthFailure") = 2

\* the logout messages handed to the channel of instance t or on their way
LogoutsAt(t) == Occurrences(t.received \o t.inbox, "LOGOUT")

\* C36: the handler of a received logout message calls clearTokens and the
\* onAuthFailure of the application and never channel.postMessage: the step
\* that hands a message to an instance publishes nothing and puts nothing
\* on the channel of the other. So the logout messages that reach an
\* instance are never more than the other instance published for failures or
\* broadcastLogout() calls of its own, plus those of other contexts: no
\* message is answered with a message.
C36_ReceivingNeverPublishes ==
    /\ [](/\ \A i \in PostCalls(tab) : tab.calls[i].why # "logout"
          /\ \A i \in PostCalls(peer) : peer.calls[i].why # "logout"
          /\ LogoutsAt(peer) <= tab.posted + tab.others
          /\ LogoutsAt(tab) <= Cardinality(PostCalls(peer)) + tab.others)
    /\ [][Len(tab'.received) > Len(tab.received)
            => /\ tab'.posted = tab.posted
               /\ PostCalls(tab') = PostCalls(tab)
               /\ peer' = peer]_vars
    /\ [][Len(peer'.received) > Len(peer.received)
            => /\ PostCalls(peer') = PostCalls(peer)
               /\ tab' = tab]_vars

\* the logout this instance published for a failed refresh was handed to the
\* other instance, which called clearTokens and onAuthFailure and published
\* nothing: no message has come back
C36_Witness ==
    /\ tab.notifier = "open" /\ peer.notifier = "open"
    /\ tab.posted = 1 /\ tab.others = 0
    /\ peer.received = <<"LOGOUT">> /\ peer.inbox = <<>>
    /\ peer.calls = LogoutReceivedCalls
    /\ tab.inbox = <<>> /\ tab.received = <<>>
    /\ \E i \in DOMAIN tab.calls : tab.calls[i] = Did("postMessage", 1, "failure")

\* the step hands a logout message to this instance
LogoutReceived ==
    /\ Len(tab'.received) = Len(tab.received) + 1
    /\ tab'.received[Len(tab'.received)] = "LOGOUT"

\* C37: a logout message handed to the instance while a refresh is in flight
\* empties the store and leaves the refresh as it was: the slot, the
\* exchange under way, its attempt counter and timer, and the callers that
\* wait for it. When the exchange of a refresh succeeds, the .then reaction
\* calls setTokens with the pair obtained, whatever was received meanwhile,
\* so that the store holds that pair when the reaction has run.
C37_LogoutLeavesRefreshRunning ==
    /\ [][(LogoutReceived /\ refreshPromise # 0)
            => /\ store' = NoTokens
               /\ refreshPromise' = refreshPromise
               /\ op' = op
               /\ caller' = caller
               /\ log' = log]_vars
    /\ [](\A g \in Gens :
            (op[g].phase = "finally" /\ op[g].result.state = "fulfilled")
            => /\ store = op[g].result.tokens
               /\ CallsOf("setTokens", g) # {}
               /\ \A i \in CallsOf("setTokens", g) : log[i].arg = op[g].result.tokens)

\* with getRefreshToken configured, the refresh of the only call made was
\* in flight when a logout message was handed over (the store was emptied:
\* clearTokens was called for the message); the exchange then succeeded and
\* the store holds the pair it obtained
C37_Witness ==
    \E g \in Gens :
        /\ cfg.hasGetter
        /\ nCalls = TabCalls - 1
        /\ Occurrences(tab.received, "LOGOUT") = 1
        /\ Occurrences(tab.calls, Did("clearTokens", 0, "logout")) = 1
        /\ op[g].phase = "settled"
        /\ op[g].result.state = "fulfilled"
        /\ store = op[g].result.tokens
        /\ store # NoTokens
        /\ refreshPromise = 0

\* the last exchange of refresh g was answered with a 2xx response
ExchangeSucceeded(g) ==
    /\ op[g].responses # <<>>
    /\ LET last == op[g].responses[Len(op[g].responses)]
       IN  ~last.threw /\ last.status >= 200 /\ last.status < 300

\* C38: when the exchange of a refresh succeeded and setTokens, or the
\* completion callback called after it, throws, the refresh ends as a
\* failed one. The .catch reaction runs after the .then reaction that threw:
\* clearTokens and the auth-failure callback are called once each, after the
\* calls the .then reaction made, and the store is empty; the outcome of the
\* refresh is the rejection with the thrown error, which every caller that
\* waited for it receives, none of them before the failure was handled; and
\* the slot is null again once the chain has finished.
C38_ThrowingCallbackFailsRefresh ==
    /\ \A g \in Gens :
        ExchangeSucceeded(g)
        => /\ Count("setTokens", g) <= 1 /\ Count("onTokenRefresh", g) <= 1
           /\ (op[g].phase = "resolved" /\ op[g].result.state = "fulfilled")
              => Count("setTokens", g) = 0 /\ Count("clearTokens", g) = 0
           /\ (op[g].phase = "resolved" /\ op[g].result.state = "rejected")
              => /\ op[g].result = Rejected(CallbackError)
                 /\ Count("setTokens", g) = 1
                 /\ Count("onTokenRefresh", g) = 1 <=> cfg.throwing = "onTokenRefresh"
                 /\ Count("clearTokens", g) = 0 /\ Count("onAuthFailure", g) = 0
                 /\ refreshPromise = g
           /\ Reacted(g)
              => /\ op[g].result = Rejected(CallbackError)
                 /\ \E i \in DOMAIN log :
                        /\ CallsOf("clearTokens", g) = {i}
                        /\ CallsOf("onAuthFailure", g) = {i + 1}
                        /\ \A j \in CallsOf("setTokens", g) \cup CallsOf("onTokenRefresh", g) :
                                j < i
                 /\ op[g].phase = "finally" => store = NoTokens /\ refreshPromise = g
                 /\ op[g].phase = "settled" => refreshPromise # g
           /\ ~Reacted(g) => ResumedOn(g) = {}
           /\ \A c \in ResumedOn(g) : caller[c].res = Rejected(CallbackError)
    /\ InFlight = {} => refreshPromise = 0

\* the completion callback threw after setTokens had stored the pair of a
\* successful exchange: the store was emptied, the auth-failure callback
\* called, both callers that waited were rejected with the error thrown,
\* and the slot is null
C38_Witness ==
    \E g \in Gens : \E c1, c2 \in ResumedOn(g) :
        /\ c1 # c2
        /\ cfg.throwing = "onTokenRefresh"
        /\ ExchangeSucceeded(g)
        /\ Count("setTokens", g) = 1 /\ Count("onTokenRefresh", g) = 1
        /\ Count("clearTokens", g) = 1 /\ Count("onAuthFailure", g) = 1
        /\ caller[c1].res = Rejected(CallbackError)
        /\ caller[c2].res = Rejected(CallbackError)
        /\ store = NoTokens
        /\ refreshPromise = 0

\* C39: when the fetch call of exchange i of a refresh throws, with
\* skipOnClientError set or not: if i is not the last attempt the refresh
\* sleeps for retryDelays[i - 1] and then makes exchange i + 1; if it is the
\* last, the outcome of the refresh is the rejection with that exception,
\* clearTokens and the auth-failure callback are called once each and never
\* setTokens, and every caller that waited for the refresh receives that
\* rejection, after the two calls.
C39_ThrownExchangeIsRetried ==
    \A g \in Gens : \A i \in DOMAIN op[g].responses :
        ExchangeThrew(g, i)
        => /\ i < MaxAttempts
              => /\ Len(op[g].slept) >= i /\ op[g].slept[i] = cfg.retryDelays[i]
                 /\ Len(op[g].responses) = i
                    => \/ op[g].phase = "sleeping" /\ op[g].delay = cfg.retryDelays[i]
                       \/ op[g].phase = "fetching" /\ op[g].fetches = i + 1
           /\ i = MaxAttempts
              => /\ Over(g)
                 /\ op[g].result = Rejected(TransportError)
                 /\ Count("setTokens", g) = 0
                 /\ ~Reacted(g) => Count("clearTokens", g) = 0 /\ ResumedOn(g) = {}
                 /\ Reacted(g)
                    => Count("clearTokens", g) = 1 /\ Count("onAuthFailure", g) = 1
                 /\ \A c \in ResumedOn(g) : caller[c].res = Rejected(TransportError)

\* with skipOnClientError set, the first fetch call of a refresh threw, the
\* refresh slept and tried again, the second and last threw too: the
\* failure was handled and both callers that waited were rejected with the
\* exception
C39_Witness ==
    \E g \in Gens : \E c1, c2 \in ResumedOn(g) :
        /\ c1 # c2
        /\ cfg.skipOnClientError
        /\ MaxAttempts = 2
        /\ ExchangeThrew(g, 1) /\ ExchangeThrew(g, 2)
        /\ op[g].slept = <<cfg.retryDelays[1]>>
        /\ Count("clearTokens", g) = 1 /\ Count("onAuthFailure", g) = 1
        /\ caller[c1].res = Rejected(TransportError)
        /\ caller[c2].res = Rejected(TransportError)

\* C40: a call of refresh() that finds the slot null and, with
\* getRefreshToken configured, no refresh token, starts nothing and stores
\* nothing in the slot: no refresh is in flight after it, and the rejection
\* with RefreshError status 0 is a promise of this call alone. Each such
\* call calls clearTokens once more and the auth-failure callback once
\* more, so N of them make N calls of each. A call that finds the slot
\* non-null waits for that refresh even when the store holds no refresh
\* token: getRefreshToken is not consulted, nothing is cleared and no
\* callback runs.
C40_NoTokenFailureNotShared ==
    [][\A c \in Callers :
        /\ (CallStep(c) /\ refreshPromise = 0 /\ cfg.hasGetter /\ store.refreshToken = 0)
           => /\ refreshPromise' = 0
              /\ InFlight' = {} /\ Started' = Started
              /\ caller'[c].on = 0
              /\ caller'[c].own = Rejected(RefreshError(0))
              /\ Count("clearTokens", 0)' = Count("clearTokens", 0) + 1
              /\ Count("onAuthFailure", 0)' = Count("onAuthFailure", 0) + 1
              /\ Len(log') = Len(log) + 2
              /\ \A d \in Callers \ {c} : caller'[d] = caller[d]
        /\ (CallStep(c) /\ refreshPromise # 0)
           => /\ caller'[c].on = refreshPromise
              /\ caller'[c].own = Pending
              /\ refreshPromise' = refreshPromise
              /\ log' = log /\ store' = store /\ op' = op]_vars

\* two calls made one after the other while the store held no refresh
\* token, the second before the continuation of the first had run: each is
\* rejected by a promise of its own, clearTokens and the auth-failure
\* callback have been called twice, and no refresh is in flight
C40_Witness ==
    \E c1, c2 \in Callers :
        /\ c1 # c2
        /\ cfg.hasGetter
        /\ caller[c1].pc = "waiting" /\ caller[c2].pc = "waiting"
        /\ {c1, c2} \subseteq RejectedAtOnce
        /\ Count("clearTokens", 0) = 2 /\ Count("onAuthFailure", 0) = 2
        /\ Cardinality(HandledAtOnce) = 2
        /\ refreshPromise = 0 /\ InFlight = {}
====
